---- MODULE Spec2Model ----
(***************************************************************************)
(* A model of the custom linter: the Linter engine (init / addRule / lint  *)
(* with its pre-order traversal) and the rules it runs.                    *)
(*                                                                         *)
(* JavaScript strings are sequences of their UTF-16 code units, so that    *)
(* startsWith / endsWith / includes / replace / substring / RegExp         *)
(* matching are computed unit by unit, as the code computes them. A unit   *)
(* of printable ASCII is written as the one-character string, "\n" and     *)
(* "\r" as themselves, and any other unit by its code, "U+00E9" for the    *)
(* letter e with acute accent, "U+2028" for the line separator. The grave  *)
(* accent of ASCII, which a string of this notation cannot hold, is        *)
(* written by its code too, "U+0060".                                      *)
(***************************************************************************)
EXTENDS Integers, Sequences, FiniteSets, TLC

VARIABLES
  rules,        \* Linter.rules: the ordered rule list
  parser,       \* Linter.parser: NoParser (null) or the id of a Parser object
  initialized,  \* Linter.initialized
  withLanguage, \* the Parser objects on which setLanguage has been called
  created,      \* how many Parser objects were constructed (their ids are 1..created)
  loads,        \* how many times Language.load was called
  pc,           \* pc[c]: where init call c stands
  madeBy,       \* madeBy[p]: the init call that constructed Parser p
  registered,   \* the arguments of the addRule calls so far, in call order
  result,       \* what the last lint call gave its caller, and the state it ran in
  dconfig,      \* the configuration captured by createDomainDependenciesRule
  dnode,        \* the node last handed to that rule's check
  dfile,        \* the file path last handed to that rule's check
  dout,         \* what that check returned
  pconfig,      \* the configuration captured by createNoPrimitiveObsessionRule
  pnode,        \* the node last handed to that rule's check
  pfile,        \* the file path last handed to that rule's check
  pout,         \* what that check returned
  mainPc,       \* where the driver's main() stands
  files,        \* main's files: the paths findTsFiles returned
  cursor,       \* how many of them the for loop has gone through
  totalErrors,  \* main's totalErrors
  stderr,       \* what console.error has printed, one text per call
  exited,       \* the process has ended
  exitCode,     \* and the status it ended with
  linted        \* what each lint call of the loop gave main, in call order

engineVars == <<rules, parser, initialized, withLanguage, created, loads, pc,
                madeBy, registered, result>>
domainVars == <<dconfig, dnode, dfile, dout>>
primitiveVars == <<pconfig, pnode, pfile, pout>>
ruleVars == <<dconfig, dnode, dfile, dout, pconfig, pnode, pfile, pout>>
driverVars == <<mainPc, files, cursor, totalErrors, stderr, exited, exitCode, linted>>
vars == <<rules, parser, initialized, withLanguage, created, loads, pc,
          madeBy, registered, result, dconfig, dnode, dfile, dout,
          pconfig, pnode, pfile, pout,
          mainPc, files, cursor, totalErrors, stderr, exited, exitCode, linted>>

-----------------------------------------------------------------------------
(* JavaScript string and array primitives                                  *)

\* The value of a failed match / a null domain; also JavaScript's falsy "".
Null == <<>>

startsWith(s, p) ==
  /\ Len(p) <= Len(s)
  /\ \A k \in 1..Len(p) : s[k] = p[k]

endsWith(s, p) ==
  /\ Len(p) <= Len(s)
  /\ \A k \in 1..Len(p) : s[Len(s) - Len(p) + k] = p[k]

\* String.prototype.includes: p occurs in s as a substring.
includes(s, p) ==
  \E i \in 0..(Len(s) - Len(p)) : \A k \in 1..Len(p) : s[i + k] = p[k]

\* Array.prototype.includes
arrayIncludes(list, x) == \E k \in 1..Len(list) : list[k] = x

\* A path left as it was written.
keepSeparators(s) == s

\* s.replace(/\\/g, '/')
RECURSIVE normalizeSeparators(_)
normalizeSeparators(s) ==
  IF s = <<>> THEN <<>>
  ELSE <<(IF Head(s) = "\\" THEN "/" ELSE Head(s))>> \o normalizeSeparators(Tail(s))

\* s.replace(/['"]/g, '')
RECURSIVE stripQuotes(_)
stripQuotes(s) ==
  IF s = <<>> THEN <<>>
  ELSE IF Head(s) \in {"'", "\""} THEN stripQuotes(Tail(s))
  ELSE <<Head(s)>> \o stripQuotes(Tail(s))

\* s.split('/')[0]: the text before the first slash (all of s when it has none).
RECURSIVE firstSegment(_)
firstSegment(s) ==
  IF s = <<>> \/ Head(s) = "/" THEN <<>>
  ELSE <<Head(s)>> \o firstSegment(Tail(s))

\* A join that lists the names last to first.
RECURSIVE joinReversed(_)
joinReversed(list) ==
  IF list = <<>> THEN <<>>
  ELSE IF Len(list) = 1 THEN list[1]
  ELSE joinReversed(Tail(list)) \o <<",", " ">> \o list[1]

\* list.join(', ')
RECURSIVE join(_)
join(list) ==
  IF list = <<>> THEN <<>>
  ELSE IF Len(list) = 1 THEN list[1]
  ELSE list[1] \o <<",", " ">> \o join(Tail(list))

-----------------------------------------------------------------------------
(* new RegExp(`${pattern}\\/([^/]+)`) and String.prototype.match           *)
(*                                                                         *)
(* The pattern text is the configured path with only "/" (and, for the     *)
(* alias, "@") escaped, so every other character keeps its RegExp meaning. *)
(* Configured paths are taken over letters, digits, "/", "@", "#", "~",    *)
(* "-", "_" and ".": of these only "." is a RegExp metacharacter, and it   *)
(* matches any character but a line terminator: line feed, carriage        *)
(* return, line separator (U+2028) and paragraph separator (U+2029).       *)

LineTerminators == {"\n", "\r", "U+2028", "U+2029"}

patternCharMatches(p, c) ==
  IF p = "." THEN c \notin LineTerminators ELSE p = c

\* The regex matches at offset i (0-based) of s: the pattern, a slash, and at
\* least one character that is not a slash.
matchesAt(pat, s, i) ==
  /\ i + Len(pat) + 2 <= Len(s)
  /\ \A k \in 1..Len(pat) : patternCharMatches(pat[k], s[i + k])
  /\ s[i + Len(pat) + 1] = "/"
  /\ s[i + Len(pat) + 2] # "/"

\* A capture group that runs to the end of the string: (.+) for ([^/]+).
matchWholeRest(pat, s) ==
  IF \E i \in 0..Len(s) : matchesAt(pat, s, i)
  THEN LET i == CHOOSE i \in 0..Len(s) :
                  /\ matchesAt(pat, s, i)
                  /\ \A j \in 0..(i - 1) : ~matchesAt(pat, s, j)
       IN SubSeq(s, i + Len(pat) + 2, Len(s))
  ELSE Null

\* s.match(regex): group 1 of the leftmost match, or Null.
matchSegment(pat, s) ==
  IF \E i \in 0..Len(s) : matchesAt(pat, s, i)
  THEN LET i     == CHOOSE i \in 0..Len(s) :
                      /\ matchesAt(pat, s, i)
                      /\ \A j \in 0..(i - 1) : ~matchesAt(pat, s, j)
           first == i + Len(pat) + 2
           last  == CHOOSE e \in first..Len(s) :
                      /\ \A k \in first..e : s[k] # "/"
                      /\ (e = Len(s) \/ s[e + 1] = "/")
       IN SubSeq(s, first, last)
  ELSE Null

-----------------------------------------------------------------------------
(* Syntax nodes (web-tree-sitter Node)                                     *)
(*                                                                         *)
(* A node is a record: type, named (isNamed: false for the grammar's       *)
(* anonymous tokens), text, startPosition (row, column, 0-based), fields   *)
(* (pairs <<field name, index into children>>) and children (all children  *)
(* in source order, anonymous tokens included).                            *)

NullNode ==
  [type |-> "null", named |-> FALSE, text |-> <<>>, row |-> 0, column |-> 0,
   fields |-> <<>>, children |-> <<>>]

\* node.childForFieldName(name): the child in that field, or null.
childForFieldName(node, name) ==
  IF \E k \in 1..Len(node.fields) : node.fields[k][1] = name
  THEN LET k == CHOOSE k \in 1..Len(node.fields) : node.fields[k][1] = name
       IN node.children[node.fields[k][2]]
  ELSE NullNode

-----------------------------------------------------------------------------
(* Rule results                                                            *)

NoError ==
  [file |-> <<>>, line |-> 0, column |-> 0, message |-> <<>>, ruleName |-> ""]

\* check returned null
ReturnsNull == [kind |-> "null", error |-> NoError]

\* check returned a LintError
Returns(e) == [kind |-> "error", error |-> e]

\* check threw
Throws == [kind |-> "throw", error |-> NoError]

\* A violation that carries the position as the parser counts it, from 0.
LintErrorZeroBased(filePath, node, message, ruleName) ==
  [file |-> filePath, line |-> node.row, column |-> node.column,
   message |-> message, ruleName |-> ruleName]

\* { file, line: position.row + 1, column: position.column + 1, message, ruleName }
LintError(filePath, node, message, ruleName) ==
  [file |-> filePath, line |-> node.row + 1, column |-> node.column + 1,
   message |-> message, ruleName |-> ruleName]

-----------------------------------------------------------------------------
(* rules/domainDependencies: createDomainDependenciesRule(config)          *)

\* The names every plain object inherits from Object.prototype.
ObjectPrototypeKeys == {
  <<"c","o","n","s","t","r","u","c","t","o","r">>,
  <<"_","_","d","e","f","i","n","e","G","e","t","t","e","r","_","_">>,
  <<"_","_","d","e","f","i","n","e","S","e","t","t","e","r","_","_">>,
  <<"h","a","s","O","w","n","P","r","o","p","e","r","t","y">>,
  <<"_","_","l","o","o","k","u","p","G","e","t","t","e","r","_","_">>,
  <<"_","_","l","o","o","k","u","p","S","e","t","t","e","r","_","_">>,
  <<"i","s","P","r","o","t","o","t","y","p","e","O","f">>,
  <<"p","r","o","p","e","r","t","y","I","s","E","n","u","m","e","r","a","b","l","e">>,
  <<"t","o","S","t","r","i","n","g">>,
  <<"v","a","l","u","e","O","f">>,
  <<"_","_","p","r","o","t","o","_","_">>,
  <<"t","o","L","o","c","a","l","e","S","t","r","i","n","g">> }

\* dependencies is a sequence of entries [key, value] in configured order.
hasOwn(dependencies, key) ==
  \E k \in 1..Len(dependencies) : dependencies[k].key = key

ownValue(dependencies, key) ==
  dependencies[CHOOSE k \in 1..Len(dependencies) : dependencies[k].key = key].value

\* dependencies[key]: an own entry's array, a value inherited from
\* Object.prototype (truthy, and no array), or undefined.
dependenciesGet(dependencies, key) ==
  IF hasOwn(dependencies, key)
    THEN [kind |-> "array", value |-> ownValue(dependencies, key)]
  ELSE IF key \in ObjectPrototypeKeys
    THEN [kind |-> "inherited", value |-> <<>>]
  ELSE [kind |-> "undefined", value |-> <<>>]

\* domainPath.replace(/\//g, '\\/'): the pattern matches what domainPath spells.
domainPathPattern(config) == config.domainPath

\* importAlias.replace(/[/@]/g, '\\$&')
importAliasPattern(config) == config.importAlias

getDomainFromPath(config, filePath) ==
  matchSegment(domainPathPattern(config), normalizeSeparators(filePath))

\* The import's segment, without the test for a root file.
getDomainFromImportWithoutRootFiles(config, importSource) ==
  IF ~startsWith(importSource, firstSegment(config.importAlias)) THEN Null
  ELSE matchSegment(importAliasPattern(config), importSource)

\* The import's segment, without the guard on the alias's leading segment.
getDomainFromImportWithoutGuard(config, importSource) ==
  LET domain == matchSegment(importAliasPattern(config), importSource)
  IN IF domain = Null THEN Null
     ELSE IF arrayIncludes(config.rootFiles, domain) THEN Null
     ELSE domain

getDomainFromImport(config, importSource) ==
  IF ~startsWith(importSource, firstSegment(config.importAlias)) THEN Null
  ELSE LET domain == matchSegment(importAliasPattern(config), importSource)
       IN IF domain = Null THEN Null
          ELSE IF arrayIncludes(config.rootFiles, domain) THEN Null
          ELSE domain

Star == <<"*">>

\* The lookup and the membership tests, without the test for a self-import.
isImportAllowedWithoutSelfCheck(config, fromDomain, toDomain) ==
  LET allowed == dependenciesGet(config.dependencies, fromDomain)
  IN IF allowed.kind = "undefined" THEN "false"
     ELSE IF allowed.kind = "inherited" THEN "TypeError"
     ELSE IF arrayIncludes(allowed.value, Star) THEN "true"
     ELSE IF arrayIncludes(allowed.value, toDomain) THEN "true"
     ELSE "false"

\* The lookup and the literal membership test, without the test for '*'.
isImportAllowedWithoutWildcard(config, fromDomain, toDomain) ==
  IF fromDomain = toDomain THEN "true"
  ELSE LET allowed == dependenciesGet(config.dependencies, fromDomain)
       IN IF allowed.kind = "undefined" THEN "false"
          ELSE IF allowed.kind = "inherited" THEN "TypeError"
          ELSE IF arrayIncludes(allowed.value, toDomain) THEN "true"
          ELSE "false"

\* A domain without an entry may import anything (fail-open).
isImportAllowedFailOpen(config, fromDomain, toDomain) ==
  IF fromDomain = toDomain THEN "true"
  ELSE LET allowed == dependenciesGet(config.dependencies, fromDomain)
       IN IF allowed.kind = "undefined" THEN "true"
          ELSE IF allowed.kind = "inherited" THEN "TypeError"
          ELSE IF arrayIncludes(allowed.value, Star) THEN "true"
          ELSE IF arrayIncludes(allowed.value, toDomain) THEN "true"
          ELSE "false"

\* An allowance that passes through the allowed domains' own lists.
isImportAllowedTransitively(config, fromDomain, toDomain) ==
  IF fromDomain = toDomain THEN "true"
  ELSE LET allowed == dependenciesGet(config.dependencies, fromDomain)
       IN IF allowed.kind = "undefined" THEN "false"
          ELSE IF allowed.kind = "inherited" THEN "TypeError"
          ELSE IF arrayIncludes(allowed.value, Star) THEN "true"
          ELSE IF arrayIncludes(allowed.value, toDomain) THEN "true"
          ELSE IF \E k \in 1..Len(allowed.value) :
                    /\ hasOwn(config.dependencies, allowed.value[k])
                    /\ arrayIncludes(ownValue(config.dependencies, allowed.value[k]), toDomain)
            THEN "true"
          ELSE "false"

\* "true", "false", or "TypeError" when allowed.includes is not a function
\* (allowed is a value inherited from Object.prototype).
isImportAllowed(config, fromDomain, toDomain) ==
  IF fromDomain = toDomain THEN "true"
  ELSE LET allowed == dependenciesGet(config.dependencies, fromDomain)
       IN IF allowed.kind = "undefined" THEN "false"
          ELSE IF allowed.kind = "inherited" THEN "TypeError"
          ELSE IF arrayIncludes(allowed.value, Star) THEN "true"
          ELSE IF arrayIncludes(allowed.value, toDomain) THEN "true"
          ELSE "false"

\* Another suffix taken for the test suffix.
SpecSuffixTs == <<".","s","p","e","c",".","t","s">>

TestSuffixTs == <<".","t","e","s","t",".","t","s">>
TestSuffixTsx == <<".","t","e","s","t",".","t","s","x">>

\* dependencies[fromDomain] || []   (read only after isImportAllowed returned false)
allowedOrEmpty(config, fromDomain) ==
  LET allowed == dependenciesGet(config.dependencies, fromDomain)
  IN IF allowed.kind = "array" THEN allowed.value ELSE <<>>

domainMessage(config, fromDomain, toDomain) ==
  LET allowed     == allowedOrEmpty(config, fromDomain)
      allowedList == IF Len(allowed) > 0 THEN join(allowed) ELSE <<"n","o","n","e">>
  IN <<"D","o","m","a","i","n"," ","'">> \o fromDomain
     \o <<"'"," ","c","a","n","n","o","t"," ","i","m","p","o","r","t"," ","f","r","o","m"," ","d","o","m","a","i","n"," ","'">>
     \o toDomain
     \o <<"'","."," ","A","l","l","o","w","e","d"," ","d","o","m","a","i","n"," ","i","m","p","o","r","t","s",":"," ","[">>
     \o allowedList \o <<"]">>

domainCheck(config, node, filePath) ==
  IF node.type # "import_statement" THEN ReturnsNull
  ELSE IF endsWith(filePath, TestSuffixTs) \/ endsWith(filePath, TestSuffixTsx)
    THEN ReturnsNull
  ELSE LET fromDomain == getDomainFromPath(config, filePath) IN
    IF fromDomain = Null THEN ReturnsNull
    ELSE LET sourceNode == childForFieldName(node, "source") IN
      IF sourceNode = NullNode THEN ReturnsNull
      ELSE LET importSource == stripQuotes(sourceNode.text)
               toDomain     == getDomainFromImport(config, importSource) IN
        IF toDomain = Null THEN ReturnsNull
        ELSE LET ok == isImportAllowed(config, fromDomain, toDomain) IN
          IF ok = "TypeError" THEN Throws
          ELSE IF ok = "false"
            THEN Returns(LintError(filePath, node,
                                   domainMessage(config, fromDomain, toDomain),
                                   "domain-dependencies"))
          ELSE ReturnsNull

-----------------------------------------------------------------------------
(* rules/noDirectShadcnImports                                             *)

\* ERROR_MESSAGE: the template literal, trimmed
ShadcnMessage ==
  <<"D","i","r","e","c","t"," ","i","m","p","o","r","t","s"," ","f","r","o","m"," ","s","h","a","d","c","n"," ","c","o","m","p","o","n","e","n","t","s"," ","a","r","e"," ","n","o","t"," ","a","l","l","o","w","e","d"," ","o","u","t","s","i","d","e"," ","o","f"," ","s","r","c","/","c","o","m","p","o","n","e","n","t","s","/",".","\n">>
  \o <<"\n">>
  \o <<"A","l","w","a","y","s"," ","w","r","a","p"," ","s","h","a","d","c","n","/","u","i"," ","c","o","m","p","o","n","e","n","t","s"," ","i","n"," ","s","r","c","/","c","o","m","p","o","n","e","n","t","s","/","u","i","/"," ","a","n","d"," ","i","m","p","o","r","t"," ","f","r","o","m"," ","t","h","e","r","e"," ","i","n","s","t","e","a","d",".","\n">>
  \o <<"T","h","i","s"," ","p","r","o","v","i","d","e","s"," ","a"," ","s","i","n","g","l","e"," ","p","o","i","n","t"," ","o","f"," ","c","u","s","t","o","m","i","z","a","t","i","o","n"," ","a","n","d"," ","d","e","c","o","u","p","l","e","s"," ","a","p","p"," ","c","o","d","e"," ","f","r","o","m"," ","t","h","e"," ","c","o","m","p","o","n","e","n","t"," ","l","i","b","r","a","r","y",".","\n">>
  \o <<"\n">>
  \o <<"E","x","a","m","p","l","e",":","\n">>
  \o <<" "," ","/","/"," ","B","a","d",":"," ","D","i","r","e","c","t"," ","i","m","p","o","r","t"," ","f","r","o","m"," ","s","h","a","d","c","n","\n">>
  \o <<" "," ","i","m","p","o","r","t"," ","{"," ","B","u","t","t","o","n"," ","}"," ","f","r","o","m"," ","'","@","/","s","h","a","d","c","n","/","c","o","m","p","o","n","e","n","t","s","/","u","i","/","b","u","t","t","o","n","'",";","\n">>
  \o <<"\n">>
  \o <<" "," ","/","/"," ","G","o","o","d",":"," ","I","m","p","o","r","t"," ","f","r","o","m"," ","w","r","a","p","p","e","r","\n">>
  \o <<" "," ","i","m","p","o","r","t"," ","{"," ","B","u","t","t","o","n"," ","}"," ","f","r","o","m"," ","'","@","/","c","o","m","p","o","n","e","n","t","s","/","u","i","'",";">>

isShadcnImport(source) ==
  \/ includes(source, <<"s","h","a","d","c","n">>)
  \/ includes(source, <<"/","s","h","a","d","c","n","/">>)

isAllowedToImportShadcn(filePath) ==
  \/ includes(filePath, <<"s","r","c","/","c","o","m","p","o","n","e","n","t","s","/">>)
  \/ includes(filePath, <<"s","r","c","\\","c","o","m","p","o","n","e","n","t","s","\\">>)
  \/ includes(filePath, <<"s","r","c","/","s","h","a","d","c","n","/">>)
  \/ includes(filePath, <<"s","r","c","\\","s","h","a","d","c","n","\\">>)

shadcnCheck(node, filePath) ==
  IF node.type # "import_statement" THEN ReturnsNull
  ELSE LET sourceNode == childForFieldName(node, "source") IN
    IF sourceNode = NullNode THEN ReturnsNull
    ELSE LET source == stripQuotes(sourceNode.text) IN
      IF isShadcnImport(source) /\ ~isAllowedToImportShadcn(filePath)
        THEN Returns(LintError(filePath, node, ShadcnMessage, "no-direct-shadcn-imports"))
      ELSE ReturnsNull

-----------------------------------------------------------------------------
(* rules/noPrimitiveObsession: createNoPrimitiveObsessionRule(config)      *)

FUNCTION_NODE_TYPES == <<"function_declaration", "arrow_function", "method_definition">>

\* node.isNamed
isNamed(node) == node.named

RECURSIVE namedChildren(_)
namedChildren(node) ==
  IF node.children = <<>> THEN <<>>
  ELSE LET first == node.children[1]
           rest  == namedChildren([node EXCEPT !.children = Tail(@)])
       IN IF isNamed(first) THEN <<first>> \o rest ELSE rest

\* node.namedChildCount
namedChildCount(node) == Len(namedChildren(node))

\* node.namedChild(i), i counted from 0
namedChild(node, i) ==
  IF i + 1 \in 1..namedChildCount(node) THEN namedChildren(node)[i + 1] ELSE NullNode

LowerCase == <<"a","b","c","d","e","f","g","h","i","j","k","l","m","n","o","p","q","r","s","t","u","v","w","x","y","z">>
UpperCase == <<"A","B","C","D","E","F","G","H","I","J","K","L","M","N","O","P","Q","R","S","T","U","V","W","X","Y","Z">>

\* The units outside ASCII that toUpperCase changes, each with the units of
\* its upper-case form (one unit, or several: the sharp s gives SS). The
\* mapping is the one of the runtime's Unicode tables; this is Unicode 17.0,
\* that of node 20 and 22. It has eight entries a runtime with Unicode 15.1
\* (node 18) leaves as they are: U+019B, U+0264, U+1C8A, U+A7CD, U+A7CF,
\* U+A7D3, U+A7D5 and U+A7DB.
UpperCaseOutsideAscii ==
  << <<"U+00B5", <<"U+039C">>>>, <<"U+00DF", <<"S","S">>>>, <<"U+00E0", <<"U+00C0">>>>, <<"U+00E1", <<"U+00C1">>>>,
     <<"U+00E2", <<"U+00C2">>>>, <<"U+00E3", <<"U+00C3">>>>, <<"U+00E4", <<"U+00C4">>>>, <<"U+00E5", <<"U+00C5">>>>,
     <<"U+00E6", <<"U+00C6">>>>, <<"U+00E7", <<"U+00C7">>>>, <<"U+00E8", <<"U+00C8">>>>, <<"U+00E9", <<"U+00C9">>>>,
     <<"U+00EA", <<"U+00CA">>>>, <<"U+00EB", <<"U+00CB">>>>, <<"U+00EC", <<"U+00CC">>>>, <<"U+00ED", <<"U+00CD">>>>,
     <<"U+00EE", <<"U+00CE">>>>, <<"U+00EF", <<"U+00CF">>>>, <<"U+00F0", <<"U+00D0">>>>, <<"U+00F1", <<"U+00D1">>>>,
     <<"U+00F2", <<"U+00D2">>>>, <<"U+00F3", <<"U+00D3">>>>, <<"U+00F4", <<"U+00D4">>>>, <<"U+00F5", <<"U+00D5">>>>,
     <<"U+00F6", <<"U+00D6">>>>, <<"U+00F8", <<"U+00D8">>>>, <<"U+00F9", <<"U+00D9">>>>, <<"U+00FA", <<"U+00DA">>>>,
     <<"U+00FB", <<"U+00DB">>>>, <<"U+00FC", <<"U+00DC">>>>, <<"U+00FD", <<"U+00DD">>>>, <<"U+00FE", <<"U+00DE">>>>,
     <<"U+00FF", <<"U+0178">>>>, <<"U+0101", <<"U+0100">>>>, <<"U+0103", <<"U+0102">>>>, <<"U+0105", <<"U+0104">>>>,
     <<"U+0107", <<"U+0106">>>>, <<"U+0109", <<"U+0108">>>>, <<"U+010B", <<"U+010A">>>>, <<"U+010D", <<"U+010C">>>>,
     <<"U+010F", <<"U+010E">>>>, <<"U+0111", <<"U+0110">>>>, <<"U+0113", <<"U+0112">>>>, <<"U+0115", <<"U+0114">>>>,
     <<"U+0117", <<"U+0116">>>>, <<"U+0119", <<"U+0118">>>>, <<"U+011B", <<"U+011A">>>>, <<"U+011D", <<"U+011C">>>>,
     <<"U+011F", <<"U+011E">>>>, <<"U+0121", <<"U+0120">>>>, <<"U+0123", <<"U+0122">>>>, <<"U+0125", <<"U+0124">>>>,
     <<"U+0127", <<"U+0126">>>>, <<"U+0129", <<"U+0128">>>>, <<"U+012B", <<"U+012A">>>>, <<"U+012D", <<"U+012C">>>>,
     <<"U+012F", <<"U+012E">>>>, <<"U+0131", <<"I">>>>, <<"U+0133", <<"U+0132">>>>, <<"U+0135", <<"U+0134">>>>,
     <<"U+0137", <<"U+0136">>>>, <<"U+013A", <<"U+0139">>>>, <<"U+013C", <<"U+013B">>>>, <<"U+013E", <<"U+013D">>>>,
     <<"U+0140", <<"U+013F">>>>, <<"U+0142", <<"U+0141">>>>, <<"U+0144", <<"U+0143">>>>, <<"U+0146", <<"U+0145">>>>,
     <<"U+0148", <<"U+0147">>>>, <<"U+0149", <<"U+02BC","N">>>>, <<"U+014B", <<"U+014A">>>>, <<"U+014D", <<"U+014C">>>>,
     <<"U+014F", <<"U+014E">>>>, <<"U+0151", <<"U+0150">>>>, <<"U+0153", <<"U+0152">>>>, <<"U+0155", <<"U+0154">>>>,
     <<"U+0157", <<"U+0156">>>>, <<"U+0159", <<"U+0158">>>>, <<"U+015B", <<"U+015A">>>>, <<"U+015D", <<"U+015C">>>>,
     <<"U+015F", <<"U+015E">>>>, <<"U+0161", <<"U+0160">>>>, <<"U+0163", <<"U+0162">>>>, <<"U+0165", <<"U+0164">>>>,
     <<"U+0167", <<"U+0166">>>>, <<"U+0169", <<"U+0168">>>>, <<"U+016B", <<"U+016A">>>>, <<"U+016D", <<"U+016C">>>>,
     <<"U+016F", <<"U+016E">>>>, <<"U+0171", <<"U+0170">>>>, <<"U+0173", <<"U+0172">>>>, <<"U+0175", <<"U+0174">>>>,
     <<"U+0177", <<"U+0176">>>>, <<"U+017A", <<"U+0179">>>>, <<"U+017C", <<"U+017B">>>>, <<"U+017E", <<"U+017D">>>>,
     <<"U+017F", <<"S">>>>, <<"U+0180", <<"U+0243">>>>, <<"U+0183", <<"U+0182">>>>, <<"U+0185", <<"U+0184">>>>,
     <<"U+0188", <<"U+0187">>>>, <<"U+018C", <<"U+018B">>>>, <<"U+0192", <<"U+0191">>>>, <<"U+0195", <<"U+01F6">>>>,
     <<"U+0199", <<"U+0198">>>>, <<"U+019A", <<"U+023D">>>>, <<"U+019B", <<"U+A7DC">>>>, <<"U+019E", <<"U+0220">>>>,
     <<"U+01A1", <<"U+01A0">>>>, <<"U+01A3", <<"U+01A2">>>>, <<"U+01A5", <<"U+01A4">>>>, <<"U+01A8", <<"U+01A7">>>>,
     <<"U+01AD", <<"U+01AC">>>>, <<"U+01B0", <<"U+01AF">>>>, <<"U+01B4", <<"U+01B3">>>>, <<"U+01B6", <<"U+01B5">>>>,
     <<"U+01B9", <<"U+01B8">>>>, <<"U+01BD", <<"U+01BC">>>>, <<"U+01BF", <<"U+01F7">>>>, <<"U+01C5", <<"U+01C4">>>>,
     <<"U+01C6", <<"U+01C4">>>>, <<"U+01C8", <<"U+01C7">>>>, <<"U+01C9", <<"U+01C7">>>>, <<"U+01CB", <<"U+01CA">>>>,
     <<"U+01CC", <<"U+01CA">>>>, <<"U+01CE", <<"U+01CD">>>>, <<"U+01D0", <<"U+01CF">>>>, <<"U+01D2", <<"U+01D1">>>>,
     <<"U+01D4", <<"U+01D3">>>>, <<"U+01D6", <<"U+01D5">>>>, <<"U+01D8", <<"U+01D7">>>>, <<"U+01DA", <<"U+01D9">>>>,
     <<"U+01DC", <<"U+01DB">>>>, <<"U+01DD", <<"U+018E">>>>, <<"U+01DF", <<"U+01DE">>>>, <<"U+01E1", <<"U+01E0">>>>,
     <<"U+01E3", <<"U+01E2">>>>, <<"U+01E5", <<"U+01E4">>>>, <<"U+01E7", <<"U+01E6">>>>, <<"U+01E9", <<"U+01E8">>>>,
     <<"U+01EB", <<"U+01EA">>>>, <<"U+01ED", <<"U+01EC">>>>, <<"U+01EF", <<"U+01EE">>>>, <<"U+01F0", <<"J","U+030C">>>>,
     <<"U+01F2", <<"U+01F1">>>>, <<"U+01F3", <<"U+01F1">>>>, <<"U+01F5", <<"U+01F4">>>>, <<"U+01F9", <<"U+01F8">>>>,
     <<"U+01FB", <<"U+01FA">>>>, <<"U+01FD", <<"U+01FC">>>>, <<"U+01FF", <<"U+01FE">>>>, <<"U+0201", <<"U+0200">>>>,
     <<"U+0203", <<"U+0202">>>>, <<"U+0205", <<"U+0204">>>>, <<"U+0207", <<"U+0206">>>>, <<"U+0209", <<"U+0208">>>>,
     <<"U+020B", <<"U+020A">>>>, <<"U+020D", <<"U+020C">>>>, <<"U+020F", <<"U+020E">>>>, <<"U+0211", <<"U+0210">>>>,
     <<"U+0213", <<"U+0212">>>>, <<"U+0215", <<"U+0214">>>>, <<"U+0217", <<"U+0216">>>>, <<"U+0219", <<"U+0218">>>>,
     <<"U+021B", <<"U+021A">>>>, <<"U+021D", <<"U+021C">>>>, <<"U+021F", <<"U+021E">>>>, <<"U+0223", <<"U+0222">>>>,
     <<"U+0225", <<"U+0224">>>>, <<"U+0227", <<"U+0226">>>>, <<"U+0229", <<"U+0228">>>>, <<"U+022B", <<"U+022A">>>>,
     <<"U+022D", <<"U+022C">>>>, <<"U+022F", <<"U+022E">>>>, <<"U+0231", <<"U+0230">>>>, <<"U+0233", <<"U+0232">>>>,
     <<"U+023C", <<"U+023B">>>>, <<"U+023F", <<"U+2C7E">>>>, <<"U+0240", <<"U+2C7F">>>>, <<"U+0242", <<"U+0241">>>>,
     <<"U+0247", <<"U+0246">>>>, <<"U+0249", <<"U+0248">>>>, <<"U+024B", <<"U+024A">>>>, <<"U+024D", <<"U+024C">>>>,
     <<"U+024F", <<"U+024E">>>>, <<"U+0250", <<"U+2C6F">>>>, <<"U+0251", <<"U+2C6D">>>>, <<"U+0252", <<"U+2C70">>>>,
     <<"U+0253", <<"U+0181">>>>, <<"U+0254", <<"U+0186">>>>, <<"U+0256", <<"U+0189">>>>, <<"U+0257", <<"U+018A">>>>,
     <<"U+0259", <<"U+018F">>>>, <<"U+025B", <<"U+0190">>>>, <<"U+025C", <<"U+A7AB">>>>, <<"U+0260", <<"U+0193">>>>,
     <<"U+0261", <<"U+A7AC">>>>, <<"U+0263", <<"U+0194">>>>, <<"U+0264", <<"U+A7CB">>>>, <<"U+0265", <<"U+A78D">>>>,
     <<"U+0266", <<"U+A7AA">>>>, <<"U+0268", <<"U+0197">>>>, <<"U+0269", <<"U+0196">>>>, <<"U+026A", <<"U+A7AE">>>>,
     <<"U+026B", <<"U+2C62">>>>, <<"U+026C", <<"U+A7AD">>>>, <<"U+026F", <<"U+019C">>>>, <<"U+0271", <<"U+2C6E">>>>,
     <<"U+0272", <<"U+019D">>>>, <<"U+0275", <<"U+019F">>>>, <<"U+027D", <<"U+2C64">>>>, <<"U+0280", <<"U+01A6">>>>,
     <<"U+0282", <<"U+A7C5">>>>, <<"U+0283", <<"U+01A9">>>>, <<"U+0287", <<"U+A7B1">>>>, <<"U+0288", <<"U+01AE">>>>,
     <<"U+0289", <<"U+0244">>>>, <<"U+028A", <<"U+01B1">>>>, <<"U+028B", <<"U+01B2">>>>, <<"U+028C", <<"U+0245">>>>,
     <<"U+0292", <<"U+01B7">>>>, <<"U+029D", <<"U+A7B2">>>>, <<"U+029E", <<"U+A7B0">>>>, <<"U+0345", <<"U+0399">>>>,
     <<"U+0371", <<"U+0370">>>>, <<"U+0373", <<"U+0372">>>>, <<"U+0377", <<"U+0376">>>>, <<"U+037B", <<"U+03FD">>>>,
     <<"U+037C", <<"U+03FE">>>>, <<"U+037D", <<"U+03FF">>>>, <<"U+0390", <<"U+0399","U+0308","U+0301">>>>, <<"U+03AC", <<"U+0386">>>>,
     <<"U+03AD", <<"U+0388">>>>, <<"U+03AE", <<"U+0389">>>>, <<"U+03AF", <<"U+038A">>>>, <<"U+03B0", <<"U+03A5","U+0308","U+0301">>>>,
     <<"U+03B1", <<"U+0391">>>>, <<"U+03B2", <<"U+0392">>>>, <<"U+03B3", <<"U+0393">>>>, <<"U+03B4", <<"U+0394">>>>,
     <<"U+03B5", <<"U+0395">>>>, <<"U+03B6", <<"U+0396">>>>, <<"U+03B7", <<"U+0397">>>>, <<"U+03B8", <<"U+0398">>>>,
     <<"U+03B9", <<"U+0399">>>>, <<"U+03BA", <<"U+039A">>>>, <<"U+03BB", <<"U+039B">>>>, <<"U+03BC", <<"U+039C">>>>,
     <<"U+03BD", <<"U+039D">>>>, <<"U+03BE", <<"U+039E">>>>, <<"U+03BF", <<"U+039F">>>>, <<"U+03C0", <<"U+03A0">>>>,
     <<"U+03C1", <<"U+03A1">>>>, <<"U+03C2", <<"U+03A3">>>>, <<"U+03C3", <<"U+03A3">>>>, <<"U+03C4", <<"U+03A4">>>>,
     <<"U+03C5", <<"U+03A5">>>>, <<"U+03C6", <<"U+03A6">>>>, <<"U+03C7", <<"U+03A7">>>>, <<"U+03C8", <<"U+03A8">>>>,
     <<"U+03C9", <<"U+03A9">>>>, <<"U+03CA", <<"U+03AA">>>>, <<"U+03CB", <<"U+03AB">>>>, <<"U+03CC", <<"U+038C">>>>,
     <<"U+03CD", <<"U+038E">>>>, <<"U+03CE", <<"U+038F">>>>, <<"U+03D0", <<"U+0392">>>>, <<"U+03D1", <<"U+0398">>>>,
     <<"U+03D5", <<"U+03A6">>>>, <<"U+03D6", <<"U+03A0">>>>, <<"U+03D7", <<"U+03CF">>>>, <<"U+03D9", <<"U+03D8">>>>,
     <<"U+03DB", <<"U+03DA">>>>, <<"U+03DD", <<"U+03DC">>>>, <<"U+03DF", <<"U+03DE">>>>, <<"U+03E1", <<"U+03E0">>>>,
     <<"U+03E3", <<"U+03E2">>>>, <<"U+03E5", <<"U+03E4">>>>, <<"U+03E7", <<"U+03E6">>>>, <<"U+03E9", <<"U+03E8">>>>,
     <<"U+03EB", <<"U+03EA">>>>, <<"U+03ED", <<"U+03EC">>>>, <<"U+03EF", <<"U+03EE">>>>, <<"U+03F0", <<"U+039A">>>>,
     <<"U+03F1", <<"U+03A1">>>>, <<"U+03F2", <<"U+03F9">>>>, <<"U+03F3", <<"U+037F">>>>, <<"U+03F5", <<"U+0395">>>>,
     <<"U+03F8", <<"U+03F7">>>>, <<"U+03FB", <<"U+03FA">>>>, <<"U+0430", <<"U+0410">>>>, <<"U+0431", <<"U+0411">>>>,
     <<"U+0432", <<"U+0412">>>>, <<"U+0433", <<"U+0413">>>>, <<"U+0434", <<"U+0414">>>>, <<"U+0435", <<"U+0415">>>>,
     <<"U+0436", <<"U+0416">>>>, <<"U+0437", <<"U+0417">>>>, <<"U+0438", <<"U+0418">>>>, <<"U+0439", <<"U+0419">>>>,
     <<"U+043A", <<"U+041A">>>>, <<"U+043B", <<"U+041B">>>>, <<"U+043C", <<"U+041C">>>>, <<"U+043D", <<"U+041D">>>>,
     <<"U+043E", <<"U+041E">>>>, <<"U+043F", <<"U+041F">>>>, <<"U+0440", <<"U+0420">>>>, <<"U+0441", <<"U+0421">>>>,
     <<"U+0442", <<"U+0422">>>>, <<"U+0443", <<"U+0423">>>>, <<"U+0444", <<"U+0424">>>>, <<"U+0445", <<"U+0425">>>>,
     <<"U+0446", <<"U+0426">>>>, <<"U+0447", <<"U+0427">>>>, <<"U+0448", <<"U+0428">>>>, <<"U+0449", <<"U+0429">>>>,
     <<"U+044A", <<"U+042A">>>>, <<"U+044B", <<"U+042B">>>>, <<"U+044C", <<"U+042C">>>>, <<"U+044D", <<"U+042D">>>>,
     <<"U+044E", <<"U+042E">>>>, <<"U+044F", <<"U+042F">>>>, <<"U+0450", <<"U+0400">>>>, <<"U+0451", <<"U+0401">>>>,
     <<"U+0452", <<"U+0402">>>>, <<"U+0453", <<"U+0403">>>>, <<"U+0454", <<"U+0404">>>>, <<"U+0455", <<"U+0405">>>>,
     <<"U+0456", <<"U+0406">>>>, <<"U+0457", <<"U+0407">>>>, <<"U+0458", <<"U+0408">>>>, <<"U+0459", <<"U+0409">>>>,
     <<"U+045A", <<"U+040A">>>>, <<"U+045B", <<"U+040B">>>>, <<"U+045C", <<"U+040C">>>>, <<"U+045D", <<"U+040D">>>>,
     <<"U+045E", <<"U+040E">>>>, <<"U+045F", <<"U+040F">>>>, <<"U+0461", <<"U+0460">>>>, <<"U+0463", <<"U+0462">>>>,
     <<"U+0465", <<"U+0464">>>>, <<"U+0467", <<"U+0466">>>>, <<"U+0469", <<"U+0468">>>>, <<"U+046B", <<"U+046A">>>>,
     <<"U+046D", <<"U+046C">>>>, <<"U+046F", <<"U+046E">>>>, <<"U+0471", <<"U+0470">>>>, <<"U+0473", <<"U+0472">>>>,
     <<"U+0475", <<"U+0474">>>>, <<"U+0477", <<"U+0476">>>>, <<"U+0479", <<"U+0478">>>>, <<"U+047B", <<"U+047A">>>>,
     <<"U+047D", <<"U+047C">>>>, <<"U+047F", <<"U+047E">>>>, <<"U+0481", <<"U+0480">>>>, <<"U+048B", <<"U+048A">>>>,
     <<"U+048D", <<"U+048C">>>>, <<"U+048F", <<"U+048E">>>>, <<"U+0491", <<"U+0490">>>>, <<"U+0493", <<"U+0492">>>>,
     <<"U+0495", <<"U+0494">>>>, <<"U+0497", <<"U+0496">>>>, <<"U+0499", <<"U+0498">>>>, <<"U+049B", <<"U+049A">>>>,
     <<"U+049D", <<"U+049C">>>>, <<"U+049F", <<"U+049E">>>>, <<"U+04A1", <<"U+04A0">>>>, <<"U+04A3", <<"U+04A2">>>>,
     <<"U+04A5", <<"U+04A4">>>>, <<"U+04A7", <<"U+04A6">>>>, <<"U+04A9", <<"U+04A8">>>>, <<"U+04AB", <<"U+04AA">>>>,
     <<"U+04AD", <<"U+04AC">>>>, <<"U+04AF", <<"U+04AE">>>>, <<"U+04B1", <<"U+04B0">>>>, <<"U+04B3", <<"U+04B2">>>>,
     <<"U+04B5", <<"U+04B4">>>>, <<"U+04B7", <<"U+04B6">>>>, <<"U+04B9", <<"U+04B8">>>>, <<"U+04BB", <<"U+04BA">>>>,
     <<"U+04BD", <<"U+04BC">>>>, <<"U+04BF", <<"U+04BE">>>>, <<"U+04C2", <<"U+04C1">>>>, <<"U+04C4", <<"U+04C3">>>>,
     <<"U+04C6", <<"U+04C5">>>>, <<"U+04C8", <<"U+04C7">>>>, <<"U+04CA", <<"U+04C9">>>>, <<"U+04CC", <<"U+04CB">>>>,
     <<"U+04CE", <<"U+04CD">>>>, <<"U+04CF", <<"U+04C0">>>>, <<"U+04D1", <<"U+04D0">>>>, <<"U+04D3", <<"U+04D2">>>>,
     <<"U+04D5", <<"U+04D4">>>>, <<"U+04D7", <<"U+04D6">>>>, <<"U+04D9", <<"U+04D8">>>>, <<"U+04DB", <<"U+04DA">>>>,
     <<"U+04DD", <<"U+04DC">>>>, <<"U+04DF", <<"U+04DE">>>>, <<"U+04E1", <<"U+04E0">>>>, <<"U+04E3", <<"U+04E2">>>>,
     <<"U+04E5", <<"U+04E4">>>>, <<"U+04E7", <<"U+04E6">>>>, <<"U+04E9", <<"U+04E8">>>>, <<"U+04EB", <<"U+04EA">>>>,
     <<"U+04ED", <<"U+04EC">>>>, <<"U+04EF", <<"U+04EE">>>>, <<"U+04F1", <<"U+04F0">>>>, <<"U+04F3", <<"U+04F2">>>>,
     <<"U+04F5", <<"U+04F4">>>>, <<"U+04F7", <<"U+04F6">>>>, <<"U+04F9", <<"U+04F8">>>>, <<"U+04FB", <<"U+04FA">>>>,
     <<"U+04FD", <<"U+04FC">>>>, <<"U+04FF", <<"U+04FE">>>>, <<"U+0501", <<"U+0500">>>>, <<"U+0503", <<"U+0502">>>>,
     <<"U+0505", <<"U+0504">>>>, <<"U+0507", <<"U+0506">>>>, <<"U+0509", <<"U+0508">>>>, <<"U+050B", <<"U+050A">>>>,
     <<"U+050D", <<"U+050C">>>>, <<"U+050F", <<"U+050E">>>>, <<"U+0511", <<"U+0510">>>>, <<"U+0513", <<"U+0512">>>>,
     <<"U+0515", <<"U+0514">>>>, <<"U+0517", <<"U+0516">>>>, <<"U+0519", <<"U+0518">>>>, <<"U+051B", <<"U+051A">>>>,
     <<"U+051D", <<"U+051C">>>>, <<"U+051F", <<"U+051E">>>>, <<"U+0521", <<"U+0520">>>>, <<"U+0523", <<"U+0522">>>>,
     <<"U+0525", <<"U+0524">>>>, <<"U+0527", <<"U+0526">>>>, <<"U+0529", <<"U+0528">>>>, <<"U+052B", <<"U+052A">>>>,
     <<"U+052D", <<"U+052C">>>>, <<"U+052F", <<"U+052E">>>>, <<"U+0561", <<"U+0531">>>>, <<"U+0562", <<"U+0532">>>>,
     <<"U+0563", <<"U+0533">>>>, <<"U+0564", <<"U+0534">>>>, <<"U+0565", <<"U+0535">>>>, <<"U+0566", <<"U+0536">>>>,
     <<"U+0567", <<"U+0537">>>>, <<"U+0568", <<"U+0538">>>>, <<"U+0569", <<"U+0539">>>>, <<"U+056A", <<"U+053A">>>>,
     <<"U+056B", <<"U+053B">>>>, <<"U+056C", <<"U+053C">>>>, <<"U+056D", <<"U+053D">>>>, <<"U+056E", <<"U+053E">>>>,
     <<"U+056F", <<"U+053F">>>>, <<"U+0570", <<"U+0540">>>>, <<"U+0571", <<"U+0541">>>>, <<"U+0572", <<"U+0542">>>>,
     <<"U+0573", <<"U+0543">>>>, <<"U+0574", <<"U+0544">>>>, <<"U+0575", <<"U+0545">>>>, <<"U+0576", <<"U+0546">>>>,
     <<"U+0577", <<"U+0547">>>>, <<"U+0578", <<"U+0548">>>>, <<"U+0579", <<"U+0549">>>>, <<"U+057A", <<"U+054A">>>>,
     <<"U+057B", <<"U+054B">>>>, <<"U+057C", <<"U+054C">>>>, <<"U+057D", <<"U+054D">>>>, <<"U+057E", <<"U+054E">>>>,
     <<"U+057F", <<"U+054F">>>>, <<"U+0580", <<"U+0550">>>>, <<"U+0581", <<"U+0551">>>>, <<"U+0582", <<"U+0552">>>>,
     <<"U+0583", <<"U+0553">>>>, <<"U+0584", <<"U+0554">>>>, <<"U+0585", <<"U+0555">>>>, <<"U+0586", <<"U+0556">>>>,
     <<"U+0587", <<"U+0535","U+0552">>>>, <<"U+10D0", <<"U+1C90">>>>, <<"U+10D1", <<"U+1C91">>>>, <<"U+10D2", <<"U+1C92">>>>,
     <<"U+10D3", <<"U+1C93">>>>, <<"U+10D4", <<"U+1C94">>>>, <<"U+10D5", <<"U+1C95">>>>, <<"U+10D6", <<"U+1C96">>>>,
     <<"U+10D7", <<"U+1C97">>>>, <<"U+10D8", <<"U+1C98">>>>, <<"U+10D9", <<"U+1C99">>>>, <<"U+10DA", <<"U+1C9A">>>>,
     <<"U+10DB", <<"U+1C9B">>>>, <<"U+10DC", <<"U+1C9C">>>>, <<"U+10DD", <<"U+1C9D">>>>, <<"U+10DE", <<"U+1C9E">>>>,
     <<"U+10DF", <<"U+1C9F">>>>, <<"U+10E0", <<"U+1CA0">>>>, <<"U+10E1", <<"U+1CA1">>>>, <<"U+10E2", <<"U+1CA2">>>>,
     <<"U+10E3", <<"U+1CA3">>>>, <<"U+10E4", <<"U+1CA4">>>>, <<"U+10E5", <<"U+1CA5">>>>, <<"U+10E6", <<"U+1CA6">>>>,
     <<"U+10E7", <<"U+1CA7">>>>, <<"U+10E8", <<"U+1CA8">>>>, <<"U+10E9", <<"U+1CA9">>>>, <<"U+10EA", <<"U+1CAA">>>>,
     <<"U+10EB", <<"U+1CAB">>>>, <<"U+10EC", <<"U+1CAC">>>>, <<"U+10ED", <<"U+1CAD">>>>, <<"U+10EE", <<"U+1CAE">>>>,
     <<"U+10EF", <<"U+1CAF">>>>, <<"U+10F0", <<"U+1CB0">>>>, <<"U+10F1", <<"U+1CB1">>>>, <<"U+10F2", <<"U+1CB2">>>>,
     <<"U+10F3", <<"U+1CB3">>>>, <<"U+10F4", <<"U+1CB4">>>>, <<"U+10F5", <<"U+1CB5">>>>, <<"U+10F6", <<"U+1CB6">>>>,
     <<"U+10F7", <<"U+1CB7">>>>, <<"U+10F8", <<"U+1CB8">>>>, <<"U+10F9", <<"U+1CB9">>>>, <<"U+10FA", <<"U+1CBA">>>>,
     <<"U+10FD", <<"U+1CBD">>>>, <<"U+10FE", <<"U+1CBE">>>>, <<"U+10FF", <<"U+1CBF">>>>, <<"U+13F8", <<"U+13F0">>>>,
     <<"U+13F9", <<"U+13F1">>>>, <<"U+13FA", <<"U+13F2">>>>, <<"U+13FB", <<"U+13F3">>>>, <<"U+13FC", <<"U+13F4">>>>,
     <<"U+13FD", <<"U+13F5">>>>, <<"U+1C80", <<"U+0412">>>>, <<"U+1C81", <<"U+0414">>>>, <<"U+1C82", <<"U+041E">>>>,
     <<"U+1C83", <<"U+0421">>>>, <<"U+1C84", <<"U+0422">>>>, <<"U+1C85", <<"U+0422">>>>, <<"U+1C86", <<"U+042A">>>>,
     <<"U+1C87", <<"U+0462">>>>, <<"U+1C88", <<"U+A64A">>>>, <<"U+1C8A", <<"U+1C89">>>>, <<"U+1D79", <<"U+A77D">>>>,
     <<"U+1D7D", <<"U+2C63">>>>, <<"U+1D8E", <<"U+A7C6">>>>, <<"U+1E01", <<"U+1E00">>>>, <<"U+1E03", <<"U+1E02">>>>,
     <<"U+1E05", <<"U+1E04">>>>, <<"U+1E07", <<"U+1E06">>>>, <<"U+1E09", <<"U+1E08">>>>, <<"U+1E0B", <<"U+1E0A">>>>,
     <<"U+1E0D", <<"U+1E0C">>>>, <<"U+1E0F", <<"U+1E0E">>>>, <<"U+1E11", <<"U+1E10">>>>, <<"U+1E13", <<"U+1E12">>>>,
     <<"U+1E15", <<"U+1E14">>>>, <<"U+1E17", <<"U+1E16">>>>, <<"U+1E19", <<"U+1E18">>>>, <<"U+1E1B", <<"U+1E1A">>>>,
     <<"U+1E1D", <<"U+1E1C">>>>, <<"U+1E1F", <<"U+1E1E">>>>, <<"U+1E21", <<"U+1E20">>>>, <<"U+1E23", <<"U+1E22">>>>,
     <<"U+1E25", <<"U+1E24">>>>, <<"U+1E27", <<"U+1E26">>>>, <<"U+1E29", <<"U+1E28">>>>, <<"U+1E2B", <<"U+1E2A">>>>,
     <<"U+1E2D", <<"U+1E2C">>>>, <<"U+1E2F", <<"U+1E2E">>>>, <<"U+1E31", <<"U+1E30">>>>, <<"U+1E33", <<"U+1E32">>>>,
     <<"U+1E35", <<"U+1E34">>>>, <<"U+1E37", <<"U+1E36">>>>, <<"U+1E39", <<"U+1E38">>>>, <<"U+1E3B", <<"U+1E3A">>>>,
     <<"U+1E3D", <<"U+1E3C">>>>, <<"U+1E3F", <<"U+1E3E">>>>, <<"U+1E41", <<"U+1E40">>>>, <<"U+1E43", <<"U+1E42">>>>,
     <<"U+1E45", <<"U+1E44">>>>, <<"U+1E47", <<"U+1E46">>>>, <<"U+1E49", <<"U+1E48">>>>, <<"U+1E4B", <<"U+1E4A">>>>,
     <<"U+1E4D", <<"U+1E4C">>>>, <<"U+1E4F", <<"U+1E4E">>>>, <<"U+1E51", <<"U+1E50">>>>, <<"U+1E53", <<"U+1E52">>>>,
     <<"U+1E55", <<"U+1E54">>>>, <<"U+1E57", <<"U+1E56">>>>, <<"U+1E59", <<"U+1E58">>>>, <<"U+1E5B", <<"U+1E5A">>>>,
     <<"U+1E5D", <<"U+1E5C">>>>, <<"U+1E5F", <<"U+1E5E">>>>, <<"U+1E61", <<"U+1E60">>>>, <<"U+1E63", <<"U+1E62">>>>,
     <<"U+1E65", <<"U+1E64">>>>, <<"U+1E67", <<"U+1E66">>>>, <<"U+1E69", <<"U+1E68">>>>, <<"U+1E6B", <<"U+1E6A">>>>,
     <<"U+1E6D", <<"U+1E6C">>>>, <<"U+1E6F", <<"U+1E6E">>>>, <<"U+1E71", <<"U+1E70">>>>, <<"U+1E73", <<"U+1E72">>>>,
     <<"U+1E75", <<"U+1E74">>>>, <<"U+1E77", <<"U+1E76">>>>, <<"U+1E79", <<"U+1E78">>>>, <<"U+1E7B", <<"U+1E7A">>>>,
     <<"U+1E7D", <<"U+1E7C">>>>, <<"U+1E7F", <<"U+1E7E">>>>, <<"U+1E81", <<"U+1E80">>>>, <<"U+1E83", <<"U+1E82">>>>,
     <<"U+1E85", <<"U+1E84">>>>, <<"U+1E87", <<"U+1E86">>>>, <<"U+1E89", <<"U+1E88">>>>, <<"U+1E8B", <<"U+1E8A">>>>,
     <<"U+1E8D", <<"U+1E8C">>>>, <<"U+1E8F", <<"U+1E8E">>>>, <<"U+1E91", <<"U+1E90">>>>, <<"U+1E93", <<"U+1E92">>>>,
     <<"U+1E95", <<"U+1E94">>>>, <<"U+1E96", <<"H","U+0331">>>>, <<"U+1E97", <<"T","U+0308">>>>, <<"U+1E98", <<"W","U+030A">>>>,
     <<"U+1E99", <<"Y","U+030A">>>>, <<"U+1E9A", <<"A","U+02BE">>>>, <<"U+1E9B", <<"U+1E60">>>>, <<"U+1EA1", <<"U+1EA0">>>>,
     <<"U+1EA3", <<"U+1EA2">>>>, <<"U+1EA5", <<"U+1EA4">>>>, <<"U+1EA7", <<"U+1EA6">>>>, <<"U+1EA9", <<"U+1EA8">>>>,
     <<"U+1EAB", <<"U+1EAA">>>>, <<"U+1EAD", <<"U+1EAC">>>>, <<"U+1EAF", <<"U+1EAE">>>>, <<"U+1EB1", <<"U+1EB0">>>>,
     <<"U+1EB3", <<"U+1EB2">>>>, <<"U+1EB5", <<"U+1EB4">>>>, <<"U+1EB7", <<"U+1EB6">>>>, <<"U+1EB9", <<"U+1EB8">>>>,
     <<"U+1EBB", <<"U+1EBA">>>>, <<"U+1EBD", <<"U+1EBC">>>>, <<"U+1EBF", <<"U+1EBE">>>>, <<"U+1EC1", <<"U+1EC0">>>>,
     <<"U+1EC3", <<"U+1EC2">>>>, <<"U+1EC5", <<"U+1EC4">>>>, <<"U+1EC7", <<"U+1EC6">>>>, <<"U+1EC9", <<"U+1EC8">>>>,
     <<"U+1ECB", <<"U+1ECA">>>>, <<"U+1ECD", <<"U+1ECC">>>>, <<"U+1ECF", <<"U+1ECE">>>>, <<"U+1ED1", <<"U+1ED0">>>>,
     <<"U+1ED3", <<"U+1ED2">>>>, <<"U+1ED5", <<"U+1ED4">>>>, <<"U+1ED7", <<"U+1ED6">>>>, <<"U+1ED9", <<"U+1ED8">>>>,
     <<"U+1EDB", <<"U+1EDA">>>>, <<"U+1EDD", <<"U+1EDC">>>>, <<"U+1EDF", <<"U+1EDE">>>>, <<"U+1EE1", <<"U+1EE0">>>>,
     <<"U+1EE3", <<"U+1EE2">>>>, <<"U+1EE5", <<"U+1EE4">>>>, <<"U+1EE7", <<"U+1EE6">>>>, <<"U+1EE9", <<"U+1EE8">>>>,
     <<"U+1EEB", <<"U+1EEA">>>>, <<"U+1EED", <<"U+1EEC">>>>, <<"U+1EEF", <<"U+1EEE">>>>, <<"U+1EF1", <<"U+1EF0">>>>,
     <<"U+1EF3", <<"U+1EF2">>>>, <<"U+1EF5", <<"U+1EF4">>>>, <<"U+1EF7", <<"U+1EF6">>>>, <<"U+1EF9", <<"U+1EF8">>>>,
     <<"U+1EFB", <<"U+1EFA">>>>, <<"U+1EFD", <<"U+1EFC">>>>, <<"U+1EFF", <<"U+1EFE">>>>, <<"U+1F00", <<"U+1F08">>>>,
     <<"U+1F01", <<"U+1F09">>>>, <<"U+1F02", <<"U+1F0A">>>>, <<"U+1F03", <<"U+1F0B">>>>, <<"U+1F04", <<"U+1F0C">>>>,
     <<"U+1F05", <<"U+1F0D">>>>, <<"U+1F06", <<"U+1F0E">>>>, <<"U+1F07", <<"U+1F0F">>>>, <<"U+1F10", <<"U+1F18">>>>,
     <<"U+1F11", <<"U+1F19">>>>, <<"U+1F12", <<"U+1F1A">>>>, <<"U+1F13", <<"U+1F1B">>>>, <<"U+1F14", <<"U+1F1C">>>>,
     <<"U+1F15", <<"U+1F1D">>>>, <<"U+1F20", <<"U+1F28">>>>, <<"U+1F21", <<"U+1F29">>>>, <<"U+1F22", <<"U+1F2A">>>>,
     <<"U+1F23", <<"U+1F2B">>>>, <<"U+1F24", <<"U+1F2C">>>>, <<"U+1F25", <<"U+1F2D">>>>, <<"U+1F26", <<"U+1F2E">>>>,
     <<"U+1F27", <<"U+1F2F">>>>, <<"U+1F30", <<"U+1F38">>>>, <<"U+1F31", <<"U+1F39">>>>, <<"U+1F32", <<"U+1F3A">>>>,
     <<"U+1F33", <<"U+1F3B">>>>, <<"U+1F34", <<"U+1F3C">>>>, <<"U+1F35", <<"U+1F3D">>>>, <<"U+1F36", <<"U+1F3E">>>>,
     <<"U+1F37", <<"U+1F3F">>>>, <<"U+1F40", <<"U+1F48">>>>, <<"U+1F41", <<"U+1F49">>>>, <<"U+1F42", <<"U+1F4A">>>>,
     <<"U+1F43", <<"U+1F4B">>>>, <<"U+1F44", <<"U+1F4C">>>>, <<"U+1F45", <<"U+1F4D">>>>, <<"U+1F50", <<"U+03A5","U+0313">>>>,
     <<"U+1F51", <<"U+1F59">>>>, <<"U+1F52", <<"U+03A5","U+0313","U+0300">>>>, <<"U+1F53", <<"U+1F5B">>>>, <<"U+1F54", <<"U+03A5","U+0313","U+0301">>>>,
     <<"U+1F55", <<"U+1F5D">>>>, <<"U+1F56", <<"U+03A5","U+0313","U+0342">>>>, <<"U+1F57", <<"U+1F5F">>>>, <<"U+1F60", <<"U+1F68">>>>,
     <<"U+1F61", <<"U+1F69">>>>, <<"U+1F62", <<"U+1F6A">>>>, <<"U+1F63", <<"U+1F6B">>>>, <<"U+1F64", <<"U+1F6C">>>>,
     <<"U+1F65", <<"U+1F6D">>>>, <<"U+1F66", <<"U+1F6E">>>>, <<"U+1F67", <<"U+1F6F">>>>, <<"U+1F70", <<"U+1FBA">>>>,
     <<"U+1F71", <<"U+1FBB">>>>, <<"U+1F72", <<"U+1FC8">>>>, <<"U+1F73", <<"U+1FC9">>>>, <<"U+1F74", <<"U+1FCA">>>>,
     <<"U+1F75", <<"U+1FCB">>>>, <<"U+1F76", <<"U+1FDA">>>>, <<"U+1F77", <<"U+1FDB">>>>, <<"U+1F78", <<"U+1FF8">>>>,
     <<"U+1F79", <<"U+1FF9">>>>, <<"U+1F7A", <<"U+1FEA">>>>, <<"U+1F7B", <<"U+1FEB">>>>, <<"U+1F7C", <<"U+1FFA">>>>,
     <<"U+1F7D", <<"U+1FFB">>>>, <<"U+1F80", <<"U+1F08","U+0399">>>>, <<"U+1F81", <<"U+1F09","U+0399">>>>, <<"U+1F82", <<"U+1F0A","U+0399">>>>,
     <<"U+1F83", <<"U+1F0B","U+0399">>>>, <<"U+1F84", <<"U+1F0C","U+0399">>>>, <<"U+1F85", <<"U+1F0D","U+0399">>>>, <<"U+1F86", <<"U+1F0E","U+0399">>>>,
     <<"U+1F87", <<"U+1F0F","U+0399">>>>, <<"U+1F88", <<"U+1F08","U+0399">>>>, <<"U+1F89", <<"U+1F09","U+0399">>>>, <<"U+1F8A", <<"U+1F0A","U+0399">>>>,
     <<"U+1F8B", <<"U+1F0B","U+0399">>>>, <<"U+1F8C", <<"U+1F0C","U+0399">>>>, <<"U+1F8D", <<"U+1F0D","U+0399">>>>, <<"U+1F8E", <<"U+1F0E","U+0399">>>>,
     <<"U+1F8F", <<"U+1F0F","U+0399">>>>, <<"U+1F90", <<"U+1F28","U+0399">>>>, <<"U+1F91", <<"U+1F29","U+0399">>>>, <<"U+1F92", <<"U+1F2A","U+0399">>>>,
     <<"U+1F93", <<"U+1F2B","U+0399">>>>, <<"U+1F94", <<"U+1F2C","U+0399">>>>, <<"U+1F95", <<"U+1F2D","U+0399">>>>, <<"U+1F96", <<"U+1F2E","U+0399">>>>,
     <<"U+1F97", <<"U+1F2F","U+0399">>>>, <<"U+1F98", <<"U+1F28","U+0399">>>>, <<"U+1F99", <<"U+1F29","U+0399">>>>, <<"U+1F9A", <<"U+1F2A","U+0399">>>>,
     <<"U+1F9B", <<"U+1F2B","U+0399">>>>, <<"U+1F9C", <<"U+1F2C","U+0399">>>>, <<"U+1F9D", <<"U+1F2D","U+0399">>>>, <<"U+1F9E", <<"U+1F2E","U+0399">>>>,
     <<"U+1F9F", <<"U+1F2F","U+0399">>>>, <<"U+1FA0", <<"U+1F68","U+0399">>>>, <<"U+1FA1", <<"U+1F69","U+0399">>>>, <<"U+1FA2", <<"U+1F6A","U+0399">>>>,
     <<"U+1FA3", <<"U+1F6B","U+0399">>>>, <<"U+1FA4", <<"U+1F6C","U+0399">>>>, <<"U+1FA5", <<"U+1F6D","U+0399">>>>, <<"U+1FA6", <<"U+1F6E","U+0399">>>>,
     <<"U+1FA7", <<"U+1F6F","U+0399">>>>, <<"U+1FA8", <<"U+1F68","U+0399">>>>, <<"U+1FA9", <<"U+1F69","U+0399">>>>, <<"U+1FAA", <<"U+1F6A","U+0399">>>>,
     <<"U+1FAB", <<"U+1F6B","U+0399">>>>, <<"U+1FAC", <<"U+1F6C","U+0399">>>>, <<"U+1FAD", <<"U+1F6D","U+0399">>>>, <<"U+1FAE", <<"U+1F6E","U+0399">>>>,
     <<"U+1FAF", <<"U+1F6F","U+0399">>>>, <<"U+1FB0", <<"U+1FB8">>>>, <<"U+1FB1", <<"U+1FB9">>>>, <<"U+1FB2", <<"U+1FBA","U+0399">>>>,
     <<"U+1FB3", <<"U+0391","U+0399">>>>, <<"U+1FB4", <<"U+0386","U+0399">>>>, <<"U+1FB6", <<"U+0391","U+0342">>>>, <<"U+1FB7", <<"U+0391","U+0342","U+0399">>>>,
     <<"U+1FBC", <<"U+0391","U+0399">>>>, <<"U+1FBE", <<"U+0399">>>>, <<"U+1FC2", <<"U+1FCA","U+0399">>>>, <<"U+1FC3", <<"U+0397","U+0399">>>>,
     <<"U+1FC4", <<"U+0389","U+0399">>>>, <<"U+1FC6", <<"U+0397","U+0342">>>>, <<"U+1FC7", <<"U+0397","U+0342","U+0399">>>>, <<"U+1FCC", <<"U+0397","U+0399">>>>,
     <<"U+1FD0", <<"U+1FD8">>>>, <<"U+1FD1", <<"U+1FD9">>>>, <<"U+1FD2", <<"U+0399","U+0308","U+0300">>>>, <<"U+1FD3", <<"U+0399","U+0308","U+0301">>>>,
     <<"U+1FD6", <<"U+0399","U+0342">>>>, <<"U+1FD7", <<"U+0399","U+0308","U+0342">>>>, <<"U+1FE0", <<"U+1FE8">>>>, <<"U+1FE1", <<"U+1FE9">>>>,
     <<"U+1FE2", <<"U+03A5","U+0308","U+0300">>>>, <<"U+1FE3", <<"U+03A5","U+0308","U+0301">>>>, <<"U+1FE4", <<"U+03A1","U+0313">>>>, <<"U+1FE5", <<"U+1FEC">>>>,
     <<"U+1FE6", <<"U+03A5","U+0342">>>>, <<"U+1FE7", <<"U+03A5","U+0308","U+0342">>>>, <<"U+1FF2", <<"U+1FFA","U+0399">>>>, <<"U+1FF3", <<"U+03A9","U+0399">>>>,
     <<"U+1FF4", <<"U+038F","U+0399">>>>, <<"U+1FF6", <<"U+03A9","U+0342">>>>, <<"U+1FF7", <<"U+03A9","U+0342","U+0399">>>>, <<"U+1FFC", <<"U+03A9","U+0399">>>>,
     <<"U+214E", <<"U+2132">>>>, <<"U+2170", <<"U+2160">>>>, <<"U+2171", <<"U+2161">>>>, <<"U+2172", <<"U+2162">>>>,
     <<"U+2173", <<"U+2163">>>>, <<"U+2174", <<"U+2164">>>>, <<"U+2175", <<"U+2165">>>>, <<"U+2176", <<"U+2166">>>>,
     <<"U+2177", <<"U+2167">>>>, <<"U+2178", <<"U+2168">>>>, <<"U+2179", <<"U+2169">>>>, <<"U+217A", <<"U+216A">>>>,
     <<"U+217B", <<"U+216B">>>>, <<"U+217C", <<"U+216C">>>>, <<"U+217D", <<"U+216D">>>>, <<"U+217E", <<"U+216E">>>>,
     <<"U+217F", <<"U+216F">>>>, <<"U+2184", <<"U+2183">>>>, <<"U+24D0", <<"U+24B6">>>>, <<"U+24D1", <<"U+24B7">>>>,
     <<"U+24D2", <<"U+24B8">>>>, <<"U+24D3", <<"U+24B9">>>>, <<"U+24D4", <<"U+24BA">>>>, <<"U+24D5", <<"U+24BB">>>>,
     <<"U+24D6", <<"U+24BC">>>>, <<"U+24D7", <<"U+24BD">>>>, <<"U+24D8", <<"U+24BE">>>>, <<"U+24D9", <<"U+24BF">>>>,
     <<"U+24DA", <<"U+24C0">>>>, <<"U+24DB", <<"U+24C1">>>>, <<"U+24DC", <<"U+24C2">>>>, <<"U+24DD", <<"U+24C3">>>>,
     <<"U+24DE", <<"U+24C4">>>>, <<"U+24DF", <<"U+24C5">>>>, <<"U+24E0", <<"U+24C6">>>>, <<"U+24E1", <<"U+24C7">>>>,
     <<"U+24E2", <<"U+24C8">>>>, <<"U+24E3", <<"U+24C9">>>>, <<"U+24E4", <<"U+24CA">>>>, <<"U+24E5", <<"U+24CB">>>>,
     <<"U+24E6", <<"U+24CC">>>>, <<"U+24E7", <<"U+24CD">>>>, <<"U+24E8", <<"U+24CE">>>>, <<"U+24E9", <<"U+24CF">>>>,
     <<"U+2C30", <<"U+2C00">>>>, <<"U+2C31", <<"U+2C01">>>>, <<"U+2C32", <<"U+2C02">>>>, <<"U+2C33", <<"U+2C03">>>>,
     <<"U+2C34", <<"U+2C04">>>>, <<"U+2C35", <<"U+2C05">>>>, <<"U+2C36", <<"U+2C06">>>>, <<"U+2C37", <<"U+2C07">>>>,
     <<"U+2C38", <<"U+2C08">>>>, <<"U+2C39", <<"U+2C09">>>>, <<"U+2C3A", <<"U+2C0A">>>>, <<"U+2C3B", <<"U+2C0B">>>>,
     <<"U+2C3C", <<"U+2C0C">>>>, <<"U+2C3D", <<"U+2C0D">>>>, <<"U+2C3E", <<"U+2C0E">>>>, <<"U+2C3F", <<"U+2C0F">>>>,
     <<"U+2C40", <<"U+2C10">>>>, <<"U+2C41", <<"U+2C11">>>>, <<"U+2C42", <<"U+2C12">>>>, <<"U+2C43", <<"U+2C13">>>>,
     <<"U+2C44", <<"U+2C14">>>>, <<"U+2C45", <<"U+2C15">>>>, <<"U+2C46", <<"U+2C16">>>>, <<"U+2C47", <<"U+2C17">>>>,
     <<"U+2C48", <<"U+2C18">>>>, <<"U+2C49", <<"U+2C19">>>>, <<"U+2C4A", <<"U+2C1A">>>>, <<"U+2C4B", <<"U+2C1B">>>>,
     <<"U+2C4C", <<"U+2C1C">>>>, <<"U+2C4D", <<"U+2C1D">>>>, <<"U+2C4E", <<"U+2C1E">>>>, <<"U+2C4F", <<"U+2C1F">>>>,
     <<"U+2C50", <<"U+2C20">>>>, <<"U+2C51", <<"U+2C21">>>>, <<"U+2C52", <<"U+2C22">>>>, <<"U+2C53", <<"U+2C23">>>>,
     <<"U+2C54", <<"U+2C24">>>>, <<"U+2C55", <<"U+2C25">>>>, <<"U+2C56", <<"U+2C26">>>>, <<"U+2C57", <<"U+2C27">>>>,
     <<"U+2C58", <<"U+2C28">>>>, <<"U+2C59", <<"U+2C29">>>>, <<"U+2C5A", <<"U+2C2A">>>>, <<"U+2C5B", <<"U+2C2B">>>>,
     <<"U+2C5C", <<"U+2C2C">>>>, <<"U+2C5D", <<"U+2C2D">>>>, <<"U+2C5E", <<"U+2C2E">>>>, <<"U+2C5F", <<"U+2C2F">>>>,
     <<"U+2C61", <<"U+2C60">>>>, <<"U+2C65", <<"U+023A">>>>, <<"U+2C66", <<"U+023E">>>>, <<"U+2C68", <<"U+2C67">>>>,
     <<"U+2C6A", <<"U+2C69">>>>, <<"U+2C6C", <<"U+2C6B">>>>, <<"U+2C73", <<"U+2C72">>>>, <<"U+2C76", <<"U+2C75">>>>,
     <<"U+2C81", <<"U+2C80">>>>, <<"U+2C83", <<"U+2C82">>>>, <<"U+2C85", <<"U+2C84">>>>, <<"U+2C87", <<"U+2C86">>>>,
     <<"U+2C89", <<"U+2C88">>>>, <<"U+2C8B", <<"U+2C8A">>>>, <<"U+2C8D", <<"U+2C8C">>>>, <<"U+2C8F", <<"U+2C8E">>>>,
     <<"U+2C91", <<"U+2C90">>>>, <<"U+2C93", <<"U+2C92">>>>, <<"U+2C95", <<"U+2C94">>>>, <<"U+2C97", <<"U+2C96">>>>,
     <<"U+2C99", <<"U+2C98">>>>, <<"U+2C9B", <<"U+2C9A">>>>, <<"U+2C9D", <<"U+2C9C">>>>, <<"U+2C9F", <<"U+2C9E">>>>,
     <<"U+2CA1", <<"U+2CA0">>>>, <<"U+2CA3", <<"U+2CA2">>>>, <<"U+2CA5", <<"U+2CA4">>>>, <<"U+2CA7", <<"U+2CA6">>>>,
     <<"U+2CA9", <<"U+2CA8">>>>, <<"U+2CAB", <<"U+2CAA">>>>, <<"U+2CAD", <<"U+2CAC">>>>, <<"U+2CAF", <<"U+2CAE">>>>,
     <<"U+2CB1", <<"U+2CB0">>>>, <<"U+2CB3", <<"U+2CB2">>>>, <<"U+2CB5", <<"U+2CB4">>>>, <<"U+2CB7", <<"U+2CB6">>>>,
     <<"U+2CB9", <<"U+2CB8">>>>, <<"U+2CBB", <<"U+2CBA">>>>, <<"U+2CBD", <<"U+2CBC">>>>, <<"U+2CBF", <<"U+2CBE">>>>,
     <<"U+2CC1", <<"U+2CC0">>>>, <<"U+2CC3", <<"U+2CC2">>>>, <<"U+2CC5", <<"U+2CC4">>>>, <<"U+2CC7", <<"U+2CC6">>>>,
     <<"U+2CC9", <<"U+2CC8">>>>, <<"U+2CCB", <<"U+2CCA">>>>, <<"U+2CCD", <<"U+2CCC">>>>, <<"U+2CCF", <<"U+2CCE">>>>,
     <<"U+2CD1", <<"U+2CD0">>>>, <<"U+2CD3", <<"U+2CD2">>>>, <<"U+2CD5", <<"U+2CD4">>>>, <<"U+2CD7", <<"U+2CD6">>>>,
     <<"U+2CD9", <<"U+2CD8">>>>, <<"U+2CDB", <<"U+2CDA">>>>, <<"U+2CDD", <<"U+2CDC">>>>, <<"U+2CDF", <<"U+2CDE">>>>,
     <<"U+2CE1", <<"U+2CE0">>>>, <<"U+2CE3", <<"U+2CE2">>>>, <<"U+2CEC", <<"U+2CEB">>>>, <<"U+2CEE", <<"U+2CED">>>>,
     <<"U+2CF3", <<"U+2CF2">>>>, <<"U+2D00", <<"U+10A0">>>>, <<"U+2D01", <<"U+10A1">>>>, <<"U+2D02", <<"U+10A2">>>>,
     <<"U+2D03", <<"U+10A3">>>>, <<"U+2D04", <<"U+10A4">>>>, <<"U+2D05", <<"U+10A5">>>>, <<"U+2D06", <<"U+10A6">>>>,
     <<"U+2D07", <<"U+10A7">>>>, <<"U+2D08", <<"U+10A8">>>>, <<"U+2D09", <<"U+10A9">>>>, <<"U+2D0A", <<"U+10AA">>>>,
     <<"U+2D0B", <<"U+10AB">>>>, <<"U+2D0C", <<"U+10AC">>>>, <<"U+2D0D", <<"U+10AD">>>>, <<"U+2D0E", <<"U+10AE">>>>,
     <<"U+2D0F", <<"U+10AF">>>>, <<"U+2D10", <<"U+10B0">>>>, <<"U+2D11", <<"U+10B1">>>>, <<"U+2D12", <<"U+10B2">>>>,
     <<"U+2D13", <<"U+10B3">>>>, <<"U+2D14", <<"U+10B4">>>>, <<"U+2D15", <<"U+10B5">>>>, <<"U+2D16", <<"U+10B6">>>>,
     <<"U+2D17", <<"U+10B7">>>>, <<"U+2D18", <<"U+10B8">>>>, <<"U+2D19", <<"U+10B9">>>>, <<"U+2D1A", <<"U+10BA">>>>,
     <<"U+2D1B", <<"U+10BB">>>>, <<"U+2D1C", <<"U+10BC">>>>, <<"U+2D1D", <<"U+10BD">>>>, <<"U+2D1E", <<"U+10BE">>>>,
     <<"U+2D1F", <<"U+10BF">>>>, <<"U+2D20", <<"U+10C0">>>>, <<"U+2D21", <<"U+10C1">>>>, <<"U+2D22", <<"U+10C2">>>>,
     <<"U+2D23", <<"U+10C3">>>>, <<"U+2D24", <<"U+10C4">>>>, <<"U+2D25", <<"U+10C5">>>>, <<"U+2D27", <<"U+10C7">>>>,
     <<"U+2D2D", <<"U+10CD">>>>, <<"U+A641", <<"U+A640">>>>, <<"U+A643", <<"U+A642">>>>, <<"U+A645", <<"U+A644">>>>,
     <<"U+A647", <<"U+A646">>>>, <<"U+A649", <<"U+A648">>>>, <<"U+A64B", <<"U+A64A">>>>, <<"U+A64D", <<"U+A64C">>>>,
     <<"U+A64F", <<"U+A64E">>>>, <<"U+A651", <<"U+A650">>>>, <<"U+A653", <<"U+A652">>>>, <<"U+A655", <<"U+A654">>>>,
     <<"U+A657", <<"U+A656">>>>, <<"U+A659", <<"U+A658">>>>, <<"U+A65B", <<"U+A65A">>>>, <<"U+A65D", <<"U+A65C">>>>,
     <<"U+A65F", <<"U+A65E">>>>, <<"U+A661", <<"U+A660">>>>, <<"U+A663", <<"U+A662">>>>, <<"U+A665", <<"U+A664">>>>,
     <<"U+A667", <<"U+A666">>>>, <<"U+A669", <<"U+A668">>>>, <<"U+A66B", <<"U+A66A">>>>, <<"U+A66D", <<"U+A66C">>>>,
     <<"U+A681", <<"U+A680">>>>, <<"U+A683", <<"U+A682">>>>, <<"U+A685", <<"U+A684">>>>, <<"U+A687", <<"U+A686">>>>,
     <<"U+A689", <<"U+A688">>>>, <<"U+A68B", <<"U+A68A">>>>, <<"U+A68D", <<"U+A68C">>>>, <<"U+A68F", <<"U+A68E">>>>,
     <<"U+A691", <<"U+A690">>>>, <<"U+A693", <<"U+A692">>>>, <<"U+A695", <<"U+A694">>>>, <<"U+A697", <<"U+A696">>>>,
     <<"U+A699", <<"U+A698">>>>, <<"U+A69B", <<"U+A69A">>>>, <<"U+A723", <<"U+A722">>>>, <<"U+A725", <<"U+A724">>>>,
     <<"U+A727", <<"U+A726">>>>, <<"U+A729", <<"U+A728">>>>, <<"U+A72B", <<"U+A72A">>>>, <<"U+A72D", <<"U+A72C">>>>,
     <<"U+A72F", <<"U+A72E">>>>, <<"U+A733", <<"U+A732">>>>, <<"U+A735", <<"U+A734">>>>, <<"U+A737", <<"U+A736">>>>,
     <<"U+A739", <<"U+A738">>>>, <<"U+A73B", <<"U+A73A">>>>, <<"U+A73D", <<"U+A73C">>>>, <<"U+A73F", <<"U+A73E">>>>,
     <<"U+A741", <<"U+A740">>>>, <<"U+A743", <<"U+A742">>>>, <<"U+A745", <<"U+A744">>>>, <<"U+A747", <<"U+A746">>>>,
     <<"U+A749", <<"U+A748">>>>, <<"U+A74B", <<"U+A74A">>>>, <<"U+A74D", <<"U+A74C">>>>, <<"U+A74F", <<"U+A74E">>>>,
     <<"U+A751", <<"U+A750">>>>, <<"U+A753", <<"U+A752">>>>, <<"U+A755", <<"U+A754">>>>, <<"U+A757", <<"U+A756">>>>,
     <<"U+A759", <<"U+A758">>>>, <<"U+A75B", <<"U+A75A">>>>, <<"U+A75D", <<"U+A75C">>>>, <<"U+A75F", <<"U+A75E">>>>,
     <<"U+A761", <<"U+A760">>>>, <<"U+A763", <<"U+A762">>>>, <<"U+A765", <<"U+A764">>>>, <<"U+A767", <<"U+A766">>>>,
     <<"U+A769", <<"U+A768">>>>, <<"U+A76B", <<"U+A76A">>>>, <<"U+A76D", <<"U+A76C">>>>, <<"U+A76F", <<"U+A76E">>>>,
     <<"U+A77A", <<"U+A779">>>>, <<"U+A77C", <<"U+A77B">>>>, <<"U+A77F", <<"U+A77E">>>>, <<"U+A781", <<"U+A780">>>>,
     <<"U+A783", <<"U+A782">>>>, <<"U+A785", <<"U+A784">>>>, <<"U+A787", <<"U+A786">>>>, <<"U+A78C", <<"U+A78B">>>>,
     <<"U+A791", <<"U+A790">>>>, <<"U+A793", <<"U+A792">>>>, <<"U+A794", <<"U+A7C4">>>>, <<"U+A797", <<"U+A796">>>>,
     <<"U+A799", <<"U+A798">>>>, <<"U+A79B", <<"U+A79A">>>>, <<"U+A79D", <<"U+A79C">>>>, <<"U+A79F", <<"U+A79E">>>>,
     <<"U+A7A1", <<"U+A7A0">>>>, <<"U+A7A3", <<"U+A7A2">>>>, <<"U+A7A5", <<"U+A7A4">>>>, <<"U+A7A7", <<"U+A7A6">>>>,
     <<"U+A7A9", <<"U+A7A8">>>>, <<"U+A7B5", <<"U+A7B4">>>>, <<"U+A7B7", <<"U+A7B6">>>>, <<"U+A7B9", <<"U+A7B8">>>>,
     <<"U+A7BB", <<"U+A7BA">>>>, <<"U+A7BD", <<"U+A7BC">>>>, <<"U+A7BF", <<"U+A7BE">>>>, <<"U+A7C1", <<"U+A7C0">>>>,
     <<"U+A7C3", <<"U+A7C2">>>>, <<"U+A7C8", <<"U+A7C7">>>>, <<"U+A7CA", <<"U+A7C9">>>>, <<"U+A7CD", <<"U+A7CC">>>>,
     <<"U+A7CF", <<"U+A7CE">>>>, <<"U+A7D1", <<"U+A7D0">>>>, <<"U+A7D3", <<"U+A7D2">>>>, <<"U+A7D5", <<"U+A7D4">>>>,
     <<"U+A7D7", <<"U+A7D6">>>>, <<"U+A7D9", <<"U+A7D8">>>>, <<"U+A7DB", <<"U+A7DA">>>>, <<"U+A7F6", <<"U+A7F5">>>>,
     <<"U+AB53", <<"U+A7B3">>>>, <<"U+AB70", <<"U+13A0">>>>, <<"U+AB71", <<"U+13A1">>>>, <<"U+AB72", <<"U+13A2">>>>,
     <<"U+AB73", <<"U+13A3">>>>, <<"U+AB74", <<"U+13A4">>>>, <<"U+AB75", <<"U+13A5">>>>, <<"U+AB76", <<"U+13A6">>>>,
     <<"U+AB77", <<"U+13A7">>>>, <<"U+AB78", <<"U+13A8">>>>, <<"U+AB79", <<"U+13A9">>>>, <<"U+AB7A", <<"U+13AA">>>>,
     <<"U+AB7B", <<"U+13AB">>>>, <<"U+AB7C", <<"U+13AC">>>>, <<"U+AB7D", <<"U+13AD">>>>, <<"U+AB7E", <<"U+13AE">>>>,
     <<"U+AB7F", <<"U+13AF">>>>, <<"U+AB80", <<"U+13B0">>>>, <<"U+AB81", <<"U+13B1">>>>, <<"U+AB82", <<"U+13B2">>>>,
     <<"U+AB83", <<"U+13B3">>>>, <<"U+AB84", <<"U+13B4">>>>, <<"U+AB85", <<"U+13B5">>>>, <<"U+AB86", <<"U+13B6">>>>,
     <<"U+AB87", <<"U+13B7">>>>, <<"U+AB88", <<"U+13B8">>>>, <<"U+AB89", <<"U+13B9">>>>, <<"U+AB8A", <<"U+13BA">>>>,
     <<"U+AB8B", <<"U+13BB">>>>, <<"U+AB8C", <<"U+13BC">>>>, <<"U+AB8D", <<"U+13BD">>>>, <<"U+AB8E", <<"U+13BE">>>>,
     <<"U+AB8F", <<"U+13BF">>>>, <<"U+AB90", <<"U+13C0">>>>, <<"U+AB91", <<"U+13C1">>>>, <<"U+AB92", <<"U+13C2">>>>,
     <<"U+AB93", <<"U+13C3">>>>, <<"U+AB94", <<"U+13C4">>>>, <<"U+AB95", <<"U+13C5">>>>, <<"U+AB96", <<"U+13C6">>>>,
     <<"U+AB97", <<"U+13C7">>>>, <<"U+AB98", <<"U+13C8">>>>, <<"U+AB99", <<"U+13C9">>>>, <<"U+AB9A", <<"U+13CA">>>>,
     <<"U+AB9B", <<"U+13CB">>>>, <<"U+AB9C", <<"U+13CC">>>>, <<"U+AB9D", <<"U+13CD">>>>, <<"U+AB9E", <<"U+13CE">>>>,
     <<"U+AB9F", <<"U+13CF">>>>, <<"U+ABA0", <<"U+13D0">>>>, <<"U+ABA1", <<"U+13D1">>>>, <<"U+ABA2", <<"U+13D2">>>>,
     <<"U+ABA3", <<"U+13D3">>>>, <<"U+ABA4", <<"U+13D4">>>>, <<"U+ABA5", <<"U+13D5">>>>, <<"U+ABA6", <<"U+13D6">>>>,
     <<"U+ABA7", <<"U+13D7">>>>, <<"U+ABA8", <<"U+13D8">>>>, <<"U+ABA9", <<"U+13D9">>>>, <<"U+ABAA", <<"U+13DA">>>>,
     <<"U+ABAB", <<"U+13DB">>>>, <<"U+ABAC", <<"U+13DC">>>>, <<"U+ABAD", <<"U+13DD">>>>, <<"U+ABAE", <<"U+13DE">>>>,
     <<"U+ABAF", <<"U+13DF">>>>, <<"U+ABB0", <<"U+13E0">>>>, <<"U+ABB1", <<"U+13E1">>>>, <<"U+ABB2", <<"U+13E2">>>>,
     <<"U+ABB3", <<"U+13E3">>>>, <<"U+ABB4", <<"U+13E4">>>>, <<"U+ABB5", <<"U+13E5">>>>, <<"U+ABB6", <<"U+13E6">>>>,
     <<"U+ABB7", <<"U+13E7">>>>, <<"U+ABB8", <<"U+13E8">>>>, <<"U+ABB9", <<"U+13E9">>>>, <<"U+ABBA", <<"U+13EA">>>>,
     <<"U+ABBB", <<"U+13EB">>>>, <<"U+ABBC", <<"U+13EC">>>>, <<"U+ABBD", <<"U+13ED">>>>, <<"U+ABBE", <<"U+13EE">>>>,
     <<"U+ABBF", <<"U+13EF">>>>, <<"U+FB00", <<"F","F">>>>, <<"U+FB01", <<"F","I">>>>, <<"U+FB02", <<"F","L">>>>,
     <<"U+FB03", <<"F","F","I">>>>, <<"U+FB04", <<"F","F","L">>>>, <<"U+FB05", <<"S","T">>>>, <<"U+FB06", <<"S","T">>>>,
     <<"U+FB13", <<"U+0544","U+0546">>>>, <<"U+FB14", <<"U+0544","U+0535">>>>, <<"U+FB15", <<"U+0544","U+053B">>>>, <<"U+FB16", <<"U+054E","U+0546">>>>,
     <<"U+FB17", <<"U+0544","U+053D">>>>, <<"U+FF41", <<"U+FF21">>>>, <<"U+FF42", <<"U+FF22">>>>, <<"U+FF43", <<"U+FF23">>>>,
     <<"U+FF44", <<"U+FF24">>>>, <<"U+FF45", <<"U+FF25">>>>, <<"U+FF46", <<"U+FF26">>>>, <<"U+FF47", <<"U+FF27">>>>,
     <<"U+FF48", <<"U+FF28">>>>, <<"U+FF49", <<"U+FF29">>>>, <<"U+FF4A", <<"U+FF2A">>>>, <<"U+FF4B", <<"U+FF2B">>>>,
     <<"U+FF4C", <<"U+FF2C">>>>, <<"U+FF4D", <<"U+FF2D">>>>, <<"U+FF4E", <<"U+FF2E">>>>, <<"U+FF4F", <<"U+FF2F">>>>,
     <<"U+FF50", <<"U+FF30">>>>, <<"U+FF51", <<"U+FF31">>>>, <<"U+FF52", <<"U+FF32">>>>, <<"U+FF53", <<"U+FF33">>>>,
     <<"U+FF54", <<"U+FF34">>>>, <<"U+FF55", <<"U+FF35">>>>, <<"U+FF56", <<"U+FF36">>>>, <<"U+FF57", <<"U+FF37">>>>,
     <<"U+FF58", <<"U+FF38">>>>, <<"U+FF59", <<"U+FF39">>>>, <<"U+FF5A", <<"U+FF3A">>>> >>

\* c.toUpperCase() for a string of one unit: the units of its upper-case
\* form. A surrogate, which is what charAt gives of a character outside the
\* basic plane, stays as it is.
toUpperCase(c) ==
  IF \E k \in 1..Len(LowerCase) : LowerCase[k] = c
    THEN << UpperCase[CHOOSE k \in 1..Len(LowerCase) : LowerCase[k] = c] >>
  ELSE IF \E k \in 1..Len(UpperCaseOutsideAscii) : UpperCaseOutsideAscii[k][1] = c
    THEN UpperCaseOutsideAscii[CHOOSE k \in 1..Len(UpperCaseOutsideAscii) :
                                 UpperCaseOutsideAscii[k][1] = c][2]
  ELSE <<c>>

\* s.charAt(0).toUpperCase() + s.slice(1)
capitalize(s) == IF s = <<>> THEN <<>> ELSE toUpperCase(Head(s)) \o Tail(s)

\* A path that is enforced whatever the configuration.
isEnforcedPathAlways(config, filePath) == TRUE

\* enforcedPaths.some(pattern => normalized.includes(pattern))
isEnforcedPath(config, filePath) ==
  LET normalized == normalizeSeparators(filePath)
  IN \E k \in 1..Len(config.enforcedPaths) : includes(normalized, config.enforcedPaths[k])

GlobPrefix == <<"*","*","/">>

\* Every pattern taken for a substring, the glob marker included.
isExemptPathBySubstringOnly(config, filePath) ==
  LET normalized == normalizeSeparators(filePath)
  IN \E k \in 1..Len(config.exemptPaths) : includes(normalized, config.exemptPaths[k])

\* exemptPaths.some(pattern => pattern.startsWith('**/')
\*   ? normalized.endsWith(pattern.slice(3)) : normalized.includes(pattern))
isExemptPath(config, filePath) ==
  LET normalized == normalizeSeparators(filePath)
  IN \E k \in 1..Len(config.exemptPaths) :
       LET pattern == config.exemptPaths[k]
       IN IF startsWith(pattern, GlobPrefix)
            THEN endsWith(normalized, SubSeq(pattern, 4, Len(pattern)))
          ELSE includes(normalized, pattern)

primitiveMessage(config, typeName, paramName) ==
  LET exemptList == IF Len(config.exemptParams) > 0 THEN join(config.exemptParams)
                    ELSE <<"n","o","n","e">>
  IN <<"P","r","i","m","i","t","i","v","e"," ","t","y","p","e"," ","'">> \o typeName
     \o <<"'"," ","u","s","e","d"," ","f","o","r"," ","p","a","r","a","m","e","t","e","r"," ","'">> \o paramName
     \o <<"'"," ","i","n"," ","d","o","m","a","i","n"," ","l","a","y","e","r","."," ","U","s","e"," ","a"," ","b","r","a","n","d","e","d"," ","t","y","p","e"," ","(","e",".","g",".",","," ">> \o capitalize(paramName)
     \o <<"I","d"," ","o","r"," ">> \o capitalize(paramName)
     \o <<")"," ","t","o"," ","a","v","o","i","d"," ","p","r","i","m","i","t","i","v","e"," ","o","b","s","e","s","s","i","o","n","."," ","E","x","e","m","p","t"," ","p","a","r","a","m","s",":"," ","[">> \o exemptList
     \o <<"]","."," ","C","o","n","f","i","g","u","r","e"," ","i","n"," ","n","o","-","p","r","i","m","i","t","i","v","e","-","o","b","s","e","s","s","i","o","n",".","j","s","o","n",".">>

\* The nearest parameter list of the node or of a function nested in it.
RECURSIVE parametersNodeAnywhere(_)
RECURSIVE firstParametersBelow(_, _)
parametersNodeAnywhere(node) ==
  LET parameters == childForFieldName(node, "parameters")
  IN IF parameters # NullNode THEN parameters
     ELSE firstParametersBelow(node, 1)
firstParametersBelow(node, i) ==
  IF i > Len(node.children) THEN childForFieldName(node, "parameter")
  ELSE LET found == parametersNodeAnywhere(node.children[i])
       IN IF found # NullNode /\ found.type = "formal_parameters" THEN found
          ELSE firstParametersBelow(node, i + 1)

\* node.childForFieldName('parameters') || node.childForFieldName('parameter')
parametersNode(node) ==
  LET parameters == childForFieldName(node, "parameters")
  IN IF parameters # NullNode THEN parameters
     ELSE childForFieldName(node, "parameter")

\* What one turn of the loop over the parameters does with parameter i:
\* a LintError to return, or NoError to go on with the next parameter.
checkParameter(config, param, filePath) ==
  IF param = NullNode THEN NoError
  ELSE IF param.type # "required_parameter" /\ param.type # "optional_parameter"
    THEN NoError
  ELSE LET nameNode == childForFieldName(param, "pattern") IN
    IF nameNode = NullNode THEN NoError
    ELSE LET paramName == nameNode.text IN
      IF arrayIncludes(config.exemptParams, paramName) THEN NoError
      ELSE LET typeNode == childForFieldName(param, "type") IN
        IF typeNode = NullNode THEN NoError
        ELSE LET actualType == namedChild(typeNode, 0) IN
          IF actualType = NullNode THEN NoError
          ELSE IF actualType.type = "predefined_type"
                  /\ arrayIncludes(config.primitives, actualType.text)
            THEN LintError(filePath, param,
                           primitiveMessage(config, actualType.text, paramName),
                           "no-primitive-obsession")
          ELSE NoError

\* A loop that keeps the last violating parameter instead of returning the first.
RECURSIVE lastViolationFrom(_, _, _, _, _)
lastViolationFrom(config, parameters, i, filePath, found) ==
  IF i >= namedChildCount(parameters) THEN found
  ELSE LET e == checkParameter(config, namedChild(parameters, i), filePath)
       IN lastViolationFrom(config, parameters, i + 1, filePath,
                            IF e # NoError THEN Returns(e) ELSE found)

checkParametersFromLast(config, parameters, i, filePath) ==
  lastViolationFrom(config, parameters, i, filePath, ReturnsNull)

\* A loop that gives up at the first parameter with an exempt name.
RECURSIVE checkParametersUntilExempt(_, _, _, _)
checkParametersUntilExempt(config, parameters, i, filePath) ==
  IF i >= namedChildCount(parameters) THEN ReturnsNull
  ELSE LET param == namedChild(parameters, i)
           e     == checkParameter(config, param, filePath)
       IN IF e # NoError THEN Returns(e)
          ELSE IF arrayIncludes(config.exemptParams,
                                childForFieldName(param, "pattern").text)
            THEN ReturnsNull
          ELSE checkParametersUntilExempt(config, parameters, i + 1, filePath)

\* for (let i = 0; i < parametersNode.namedChildCount; i++) { ... }  from i on
RECURSIVE checkParametersFrom(_, _, _, _)
checkParametersFrom(config, parameters, i, filePath) ==
  IF i >= namedChildCount(parameters) THEN ReturnsNull
  ELSE LET e == checkParameter(config, namedChild(parameters, i), filePath)
       IN IF e # NoError THEN Returns(e)
          ELSE checkParametersFrom(config, parameters, i + 1, filePath)

checkParameters(config, node, filePath) ==
  LET parameters == parametersNode(node) IN
    IF parameters = NullNode THEN ReturnsNull
    ELSE IF parameters.type = "identifier" THEN ReturnsNull
    ELSE checkParametersFrom(config, parameters, 0, filePath)

\* check(node, filePath)
primitiveCheck(config, node, filePath) ==
  IF ~arrayIncludes(FUNCTION_NODE_TYPES, node.type) THEN ReturnsNull
  ELSE IF endsWith(filePath, TestSuffixTs) \/ endsWith(filePath, TestSuffixTsx)
    THEN ReturnsNull
  ELSE IF ~isEnforcedPath(config, filePath) THEN ReturnsNull
  ELSE IF isExemptPath(config, filePath) THEN ReturnsNull
  ELSE checkParameters(config, node, filePath)

-----------------------------------------------------------------------------
(* The rules without configuration. Each ERROR_MESSAGE is the template     *)
(* literal of its rule, trimmed, a line of the text on a line here.        *)

\* a LintError positioned at the node, with the rule's ERROR_MESSAGE
report(filePath, node, message, ruleName) ==
  Returns(LintError(filePath, node, message, ruleName))

\* node.childForFieldName('function')?.text, or undefined (Null)
functionText(node) ==
  LET functionNode == childForFieldName(node, "function")
  IN IF functionNode = NullNode THEN Null ELSE functionNode.text

(* rules/noViStub *)
STUB_FUNCTIONS == << <<"v","i",".","s","t","u","b","G","l","o","b","a","l">>, <<"v","i",".","s","t","u","b","E","n","v">> >>
ViStubMessage ==
  <<"v","i",".","s","t","u","b","G","l","o","b","a","l","(",")"," ","a","n","d"," ","v","i",".","s","t","u","b","E","n","v","(",")"," ","c","r","e","a","t","e"," ","i","m","p","l","i","c","i","t"," ","d","e","p","e","n","d","e","n","c","i","e","s"," ","t","h","a","t"," ","m","a","k","e"," ","t","e","s","t","s"," ","b","r","i","t","t","l","e"," ","a","n","d"," ","h","a","r","d"," ","t","o"," ","u","n","d","e","r","s","t","a","n","d",".","\n">>
  \o <<"\n">>
  \o <<"O","u","r"," ","t","e","s","t","i","n","g"," ","p","h","i","l","o","s","o","p","h","y",":","\n">>
  \o <<"-"," ","M","a","k","e"," ","d","e","p","e","n","d","e","n","c","i","e","s"," ","e","x","p","l","i","c","i","t"," ","t","h","r","o","u","g","h"," ","f","u","n","c","t","i","o","n"," ","p","a","r","a","m","e","t","e","r","s"," ","o","r"," ","c","o","n","s","t","r","u","c","t","o","r"," ","i","n","j","e","c","t","i","o","n","\n">>
  \o <<"-"," ","A","v","o","i","d"," ","r","e","l","y","i","n","g"," ","o","n"," ","g","l","o","b","a","l"," ","s","t","a","t","e"," ","o","r"," ","e","n","v","i","r","o","n","m","e","n","t"," ","v","a","r","i","a","b","l","e","s"," ","i","n"," ","b","u","s","i","n","e","s","s"," ","l","o","g","i","c","\n">>
  \o <<"-"," ","T","e","s","t","s"," ","s","h","o","u","l","d"," ","n","o","t"," ","d","e","p","e","n","d"," ","o","n"," ","o","r"," ","m","o","d","i","f","y"," ","s","h","a","r","e","d"," ","g","l","o","b","a","l"," ","s","t","a","t","e","\n">>
  \o <<"\n">>
  \o <<"I","n","s","t","e","a","d"," ","o","f"," ","s","t","u","b","b","i","n","g"," ","g","l","o","b","a","l","s"," ","o","r"," ","e","n","v","i","r","o","n","m","e","n","t",":","\n">>
  \o <<"1","."," ","P","a","s","s"," ","c","o","n","f","i","g","u","r","a","t","i","o","n"," ","a","s"," ","e","x","p","l","i","c","i","t"," ","p","a","r","a","m","e","t","e","r","s"," ","t","o"," ","f","u","n","c","t","i","o","n","s","\n">>
  \o <<"2","."," ","U","s","e"," ","d","e","p","e","n","d","e","n","c","y"," ","i","n","j","e","c","t","i","o","n"," ","f","o","r"," ","s","e","r","v","i","c","e","s"," ","t","h","a","t"," ","n","e","e","d"," ","e","n","v","i","r","o","n","m","e","n","t"," ","v","a","l","u","e","s","\n">>
  \o <<"3","."," ","C","r","e","a","t","e"," ","c","o","n","f","i","g","u","r","a","t","i","o","n"," ","o","b","j","e","c","t","s"," ","t","h","a","t"," ","c","a","n"," ","b","e"," ","e","a","s","i","l","y"," ","s","w","a","p","p","e","d"," ","i","n"," ","t","e","s","t","s","\n">>
  \o <<"\n">>
  \o <<"E","x","a","m","p","l","e"," ","r","e","f","a","c","t","o","r","i","n","g",":","\n">>
  \o <<" "," ","/","/"," ","B","e","f","o","r","e",":"," ","S","t","u","b","b","i","n","g"," ","g","l","o","b","a","l","s","/","e","n","v","i","r","o","n","m","e","n","t","\n">>
  \o <<" "," ","v","i",".","s","t","u","b","G","l","o","b","a","l","(","'","f","e","t","c","h","'",","," ","f","a","k","e","F","e","t","c","h",")",";","\n">>
  \o <<" "," ","v","i",".","s","t","u","b","E","n","v","(","'","A","P","I","_","U","R","L","'",","," ","'","h","t","t","p",":","/","/","t","e","s","t",".","c","o","m","'",")",";","\n">>
  \o <<"\n">>
  \o <<" "," ","/","/"," ","A","f","t","e","r",":"," ","E","x","p","l","i","c","i","t"," ","d","e","p","e","n","d","e","n","c","i","e","s","\n">>
  \o <<" "," ","f","u","n","c","t","i","o","n"," ","c","r","e","a","t","e","A","p","i","C","l","i","e","n","t","(","c","o","n","f","i","g",":"," ","{"," ","b","a","s","e","U","r","l",":"," ","s","t","r","i","n","g",";"," ","f","e","t","c","h",":"," ","t","y","p","e","o","f"," ","f","e","t","c","h"," ","}",")"," ","{","\n">>
  \o <<" "," "," "," ","r","e","t","u","r","n"," ","{"," ","/","*"," ","u","s","e"," ","c","o","n","f","i","g",".","b","a","s","e","U","r","l"," ","a","n","d"," ","c","o","n","f","i","g",".","f","e","t","c","h"," ","*","/"," ","}",";","\n">>
  \o <<" "," ","}","\n">>
  \o <<"\n">>
  \o <<" "," ","/","/"," ","I","n"," ","t","e","s","t",":","\n">>
  \o <<" "," ","c","o","n","s","t"," ","c","l","i","e","n","t"," ","="," ","c","r","e","a","t","e","A","p","i","C","l","i","e","n","t","(","{","\n">>
  \o <<" "," "," "," ","b","a","s","e","U","r","l",":"," ","'","h","t","t","p",":","/","/","t","e","s","t",".","c","o","m","'",",","\n">>
  \o <<" "," "," "," ","f","e","t","c","h",":"," ","f","a","k","e","F","e","t","c","h","\n">>
  \o <<" "," ","}",")",";","\n">>
  \o <<"\n">>
  \o <<"S","e","e"," ","C","L","A","U","D","E",".","m","d"," ","f","o","r"," ","m","o","r","e"," ","d","e","t","a","i","l","s"," ","o","n"," ","o","u","r"," ","t","e","s","t","i","n","g"," ","p","h","i","l","o","s","o","p","h","y",".">>

\* node.childForFieldName('function')!.text throws when there is no such child
noViStubCheck(node, filePath) ==
  IF node.type # "call_expression" THEN ReturnsNull
  ELSE IF childForFieldName(node, "function") = NullNode THEN Throws
  ELSE IF ~arrayIncludes(STUB_FUNCTIONS, functionText(node)) THEN ReturnsNull
  ELSE report(filePath, node, ViStubMessage, "no-vi-stub")

(* rules/noViMock *)
MOCK_FUNCTIONS == << <<"v","i",".","m","o","c","k">>, <<"v","i",".","d","o","M","o","c","k">> >>
ViMockMessage ==
  <<"v","i",".","m","o","c","k","(",")"," ","a","n","d"," ","v","i",".","d","o","M","o","c","k","(",")"," ","c","r","e","a","t","e"," ","b","r","i","t","t","l","e"," ","t","e","s","t","s"," ","t","h","a","t"," ","r","e","l","y"," ","o","n"," ","i","m","p","l","e","m","e","n","t","a","t","i","o","n"," ","d","e","t","a","i","l","s"," ","r","a","t","h","e","r"," ","t","h","a","n"," ","b","e","h","a","v","i","o","r",".","\n">>
  \o <<"\n">>
  \o <<"O","u","r"," ","t","e","s","t","i","n","g"," ","p","h","i","l","o","s","o","p","h","y",":","\n">>
  \o <<"-"," ","W","r","i","t","e"," ","n","a","r","r","o","w",","," ","s","o","c","i","a","b","l","e"," ","t","e","s","t","s"," ","t","h","a","t"," ","u","s","e"," ","r","e","a","l"," ","d","e","p","e","n","d","e","n","c","i","e","s","\n">>
  \o <<"-"," ","S","e","p","a","r","a","t","e"," ","b","u","s","i","n","e","s","s"," ","l","o","g","i","c"," ","f","r","o","m"," ","i","n","f","r","a","s","t","r","u","c","t","u","r","e"," ","t","o"," ","m","a","k","e"," ","i","t"," ","t","e","s","t","a","b","l","e","\n">>
  \o <<"-"," ","U","s","e"," ","d","e","p","e","n","d","e","n","c","y"," ","i","n","j","e","c","t","i","o","n"," ","w","i","t","h"," ","t","e","s","t"," ","d","o","u","b","l","e","s"," ","(","n","u","l","l","a","b","l","e","s"," ","p","a","t","t","e","r","n",")"," ","i","n","s","t","e","a","d"," ","o","f"," ","m","o","d","u","l","e"," ","m","o","c","k","i","n","g","\n">>
  \o <<"\n">>
  \o <<"I","n","s","t","e","a","d"," ","o","f"," ","m","o","c","k","i","n","g"," ","m","o","d","u","l","e","s",":","\n">>
  \o <<"1","."," ","E","x","t","r","a","c","t"," ","p","u","r","e"," ","l","o","g","i","c"," ","i","n","t","o"," ","s","e","p","a","r","a","t","e"," ","f","u","n","c","t","i","o","n","s"," ","t","h","a","t"," ","d","o","n","'","t"," ","n","e","e","d"," ","m","o","c","k","i","n","g","\n">>
  \o <<"2","."," ","U","s","e"," ","c","o","n","s","t","r","u","c","t","o","r"," ","i","n","j","e","c","t","i","o","n"," ","o","r"," ","f","a","c","t","o","r","y"," ","m","e","t","h","o","d","s"," ","t","o"," ","p","r","o","v","i","d","e"," ","t","e","s","t"," ","i","m","p","l","e","m","e","n","t","a","t","i","o","n","s","\n">>
  \o <<"3","."," ","C","r","e","a","t","e"," ","\"","n","u","l","l","a","b","l","e","\""," ","v","e","r","s","i","o","n","s"," ","o","f"," ","i","n","f","r","a","s","t","r","u","c","t","u","r","e"," ","c","l","a","s","s","e","s"," ","w","i","t","h"," ","c","o","n","t","r","o","l","l","a","b","l","e"," ","b","e","h","a","v","i","o","r","\n">>
  \o <<"\n">>
  \o <<"E","x","a","m","p","l","e"," ","r","e","f","a","c","t","o","r","i","n","g",":","\n">>
  \o <<" "," ","/","/"," ","B","e","f","o","r","e",":"," ","M","o","c","k","i","n","g"," ","a"," ","m","o","d","u","l","e","\n">>
  \o <<" "," ","v","i",".","m","o","c","k","(","'",".","/","a","p","i","'",","," ","(",")"," ","=",">"," ","(","{"," ","f","e","t","c","h","U","s","e","r",":"," ","v","i",".","f","n","(",")"," ","}",")",")","\n">>
  \o <<"\n">>
  \o <<" "," ","/","/"," ","A","f","t","e","r",":"," ","D","e","p","e","n","d","e","n","c","y"," ","i","n","j","e","c","t","i","o","n","\n">>
  \o <<" "," ","c","l","a","s","s"," ","U","s","e","r","S","e","r","v","i","c","e"," ","{","\n">>
  \o <<" "," "," "," ","c","o","n","s","t","r","u","c","t","o","r","(","p","r","i","v","a","t","e"," ","a","p","i",":"," ","A","p","i","C","l","i","e","n","t",")"," ","{","}","\n">>
  \o <<" "," "," "," ","s","t","a","t","i","c"," ","c","r","e","a","t","e","N","u","l","l","(","r","e","s","p","o","n","s","e","s"," ","="," ","{","}",")"," ","{","\n">>
  \o <<" "," "," "," "," "," ","r","e","t","u","r","n"," ","n","e","w"," ","U","s","e","r","S","e","r","v","i","c","e","(","n","e","w"," ","F","a","k","e","A","p","i","C","l","i","e","n","t","(","r","e","s","p","o","n","s","e","s",")",")",";","\n">>
  \o <<" "," "," "," ","}","\n">>
  \o <<" "," ","}","\n">>
  \o <<"\n">>
  \o <<"S","e","e"," ","C","L","A","U","D","E",".","m","d"," ","f","o","r"," ","m","o","r","e"," ","d","e","t","a","i","l","s"," ","o","n"," ","o","u","r"," ","t","e","s","t","i","n","g"," ","p","h","i","l","o","s","o","p","h","y",".">>

noViMockCheck(node, filePath) ==
  IF node.type # "call_expression" THEN ReturnsNull
  ELSE IF childForFieldName(node, "function") = NullNode THEN Throws
  ELSE IF ~arrayIncludes(MOCK_FUNCTIONS, functionText(node)) THEN ReturnsNull
  ELSE report(filePath, node, ViMockMessage, "no-vi-mock")

(* rules/noViMocked *)
ViMockedMessage ==
  <<"v","i",".","m","o","c","k","e","d","(",")"," ","i","s"," ","a"," ","T","y","p","e","S","c","r","i","p","t"," ","h","e","l","p","e","r"," ","f","o","r"," ","m","o","c","k","e","d"," ","f","u","n","c","t","i","o","n","s",","," ","w","h","i","c","h"," ","e","n","c","o","u","r","a","g","e","s"," ","i","n","t","e","r","a","c","t","i","o","n","-","b","a","s","e","d"," ","t","e","s","t","i","n","g",".","\n">>
  \o <<"\n">>
  \o <<"O","u","r"," ","t","e","s","t","i","n","g"," ","p","h","i","l","o","s","o","p","h","y",":","\n">>
  \o <<"-"," ","T","e","s","t"," ","b","e","h","a","v","i","o","r"," ","a","n","d"," ","s","t","a","t","e"," ","c","h","a","n","g","e","s",","," ","n","o","t"," ","m","e","t","h","o","d"," ","c","a","l","l","s","\n">>
  \o <<"-"," ","A","v","o","i","d"," ","v","e","r","i","f","y","i","n","g"," ","i","m","p","l","e","m","e","n","t","a","t","i","o","n"," ","d","e","t","a","i","l","s"," ","l","i","k","e"," ","w","h","i","c","h"," ","m","e","t","h","o","d","s"," ","w","e","r","e"," ","c","a","l","l","e","d","\n">>
  \o <<"-"," ","F","o","c","u","s"," ","o","n"," ","o","b","s","e","r","v","a","b","l","e"," ","o","u","t","c","o","m","e","s"," ","r","a","t","h","e","r"," ","t","h","a","n"," ","i","n","t","e","r","n","a","l"," ","i","n","t","e","r","a","c","t","i","o","n","s","\n">>
  \o <<"\n">>
  \o <<"I","n","s","t","e","a","d"," ","o","f"," ","u","s","i","n","g"," ","m","o","c","k","e","d"," ","f","u","n","c","t","i","o","n","s",":","\n">>
  \o <<"1","."," ","T","e","s","t"," ","t","h","e"," ","a","c","t","u","a","l"," ","b","e","h","a","v","i","o","r"," ","a","n","d"," ","s","t","a","t","e"," ","c","h","a","n","g","e","s"," ","o","f"," ","y","o","u","r"," ","c","o","d","e","\n">>
  \o <<"2","."," ","U","s","e"," ","r","e","a","l"," ","d","e","p","e","n","d","e","n","c","i","e","s"," ","o","r"," ","t","e","s","t"," ","d","o","u","b","l","e","s"," ","t","h","a","t"," ","t","r","a","c","k"," ","o","b","s","e","r","v","a","b","l","e"," ","s","t","a","t","e","\n">>
  \o <<"3","."," ","D","e","s","i","g","n"," ","c","o","d","e"," ","t","o"," ","b","e"," ","t","e","s","t","a","b","l","e"," ","t","h","r","o","u","g","h"," ","i","t","s"," ","p","u","b","l","i","c"," ","i","n","t","e","r","f","a","c","e","\n">>
  \o <<"\n">>
  \o <<"E","x","a","m","p","l","e"," ","r","e","f","a","c","t","o","r","i","n","g",":","\n">>
  \o <<" "," ","/","/"," ","B","e","f","o","r","e",":"," ","T","e","s","t","i","n","g"," ","i","m","p","l","e","m","e","n","t","a","t","i","o","n"," ","w","i","t","h"," ","m","o","c","k","s","\n">>
  \o <<" "," ","c","o","n","s","t"," ","m","o","c","k","F","n"," ","="," ","v","i",".","m","o","c","k","e","d","(","s","o","m","e","F","u","n","c","t","i","o","n",")",";","\n">>
  \o <<" "," ","d","o","S","o","m","e","t","h","i","n","g","(",")",";","\n">>
  \o <<" "," ","e","x","p","e","c","t","(","m","o","c","k","F","n",")",".","t","o","H","a","v","e","B","e","e","n","C","a","l","l","e","d","W","i","t","h","(","e","x","p","e","c","t","e","d","A","r","g",")",";","\n">>
  \o <<"\n">>
  \o <<" "," ","/","/"," ","A","f","t","e","r",":"," ","T","e","s","t","i","n","g"," ","b","e","h","a","v","i","o","r","\n">>
  \o <<" "," ","c","o","n","s","t"," ","r","e","s","u","l","t"," ","="," ","d","o","S","o","m","e","t","h","i","n","g","(",")",";","\n">>
  \o <<" "," ","e","x","p","e","c","t","(","r","e","s","u","l","t",")",".","t","o","E","q","u","a","l","(","e","x","p","e","c","t","e","d","O","u","t","p","u","t",")",";","\n">>
  \o <<"\n">>
  \o <<"S","e","e"," ","C","L","A","U","D","E",".","m","d"," ","f","o","r"," ","m","o","r","e"," ","d","e","t","a","i","l","s"," ","o","n"," ","s","t","a","t","e","-","b","a","s","e","d"," ","v","s"," ","i","n","t","e","r","a","c","t","i","o","n","-","b","a","s","e","d"," ","t","e","s","t","i","n","g",".">>

noViMockedCheck(node, filePath) ==
  IF node.type = "call_expression" /\ functionText(node) = <<"v","i",".","m","o","c","k","e","d">>
    THEN report(filePath, node, ViMockedMessage, "no-vi-mocked")
  ELSE ReturnsNull

(* rules/noSpyOn *)
SpyOnMessage ==
  <<"v","i",".","s","p","y","O","n","(",")"," ","c","r","e","a","t","e","s"," ","f","r","a","g","i","l","e"," ","t","e","s","t","s"," ","t","h","a","t"," ","v","e","r","i","f","y"," ","i","m","p","l","e","m","e","n","t","a","t","i","o","n"," ","r","a","t","h","e","r"," ","t","h","a","n"," ","b","e","h","a","v","i","o","r",".","\n">>
  \o <<"\n">>
  \o <<"O","u","r"," ","t","e","s","t","i","n","g"," ","p","h","i","l","o","s","o","p","h","y",":","\n">>
  \o <<"-"," ","F","o","c","u","s"," ","o","n"," ","b","e","h","a","v","i","o","r",","," ","n","o","t"," ","i","m","p","l","e","m","e","n","t","a","t","i","o","n"," ","d","e","t","a","i","l","s","\n">>
  \o <<"-"," ","U","s","e"," ","s","t","a","t","e","-","b","a","s","e","d"," ","t","e","s","t","i","n","g"," ","o","v","e","r"," ","i","n","t","e","r","a","c","t","i","o","n","-","b","a","s","e","d"," ","t","e","s","t","i","n","g","\n">>
  \o <<"-"," ","T","e","s","t","s"," ","s","h","o","u","l","d"," ","v","e","r","i","f","y"," ","w","h","a","t"," ","t","h","e"," ","c","o","d","e"," ","d","o","e","s",","," ","n","o","t"," ","h","o","w"," ","i","t"," ","d","o","e","s"," ","i","t","\n">>
  \o <<"-"," ","P","r","e","f","e","r"," ","d","e","p","e","n","d","e","n","c","y"," ","i","n","j","e","c","t","i","o","n"," ","w","i","t","h"," ","t","e","s","t"," ","d","o","u","b","l","e","s"," ","o","v","e","r"," ","m","o","c","k","i","n","g","\n">>
  \o <<"\n">>
  \o <<"I","n","s","t","e","a","d"," ","o","f"," ","s","p","y","i","n","g"," ","o","n"," ","m","e","t","h","o","d"," ","c","a","l","l","s",","," ","t","e","s","t"," ","t","h","e"," ","o","b","s","e","r","v","a","b","l","e"," ","b","e","h","a","v","i","o","r"," ","a","n","d"," ","s","t","a","t","e"," ","c","h","a","n","g","e","s",".","\n">>
  \o <<"S","e","e"," ","C","L","A","U","D","E",".","m","d"," ","f","o","r"," ","m","o","r","e"," ","d","e","t","a","i","l","s"," ","o","n"," ","o","u","r"," ","t","e","s","t","i","n","g"," ","p","h","i","l","o","s","o","p","h","y",".">>

\* A check that accepts every callee whose text begins with vi.spyOn.
noSpyOnCheckByPrefix(node, filePath) ==
  IF node.type = "call_expression" /\ functionText(node) # Null
     /\ startsWith(functionText(node), <<"v","i",".","s","p","y","O","n">>)
    THEN report(filePath, node, SpyOnMessage, "no-spy-on")
  ELSE ReturnsNull

noSpyOnCheck(node, filePath) ==
  IF node.type = "call_expression" /\ functionText(node) = <<"v","i",".","s","p","y","O","n">>
    THEN report(filePath, node, SpyOnMessage, "no-spy-on")
  ELSE ReturnsNull

(* rules/noViFn *)
MOCK_METHODS ==
  << <<"m","o","c","k","R","e","s","o","l","v","e","d","V","a","l","u","e">>, <<"m","o","c","k","R","e","s","o","l","v","e","d","V","a","l","u","e","O","n","c","e">>, <<"m","o","c","k","R","e","j","e","c","t","e","d","V","a","l","u","e">>,
     <<"m","o","c","k","R","e","j","e","c","t","e","d","V","a","l","u","e","O","n","c","e">>, <<"m","o","c","k","R","e","t","u","r","n","V","a","l","u","e">>, <<"m","o","c","k","R","e","t","u","r","n","V","a","l","u","e","O","n","c","e">>,
     <<"m","o","c","k","I","m","p","l","e","m","e","n","t","a","t","i","o","n">>, <<"m","o","c","k","I","m","p","l","e","m","e","n","t","a","t","i","o","n","O","n","c","e">> >>
ViFnMessage ==
  <<"v","i",".","f","n","(",")"," ","a","n","d"," ","m","o","c","k"," ","m","e","t","h","o","d","s"," ","c","r","e","a","t","e"," ","b","r","i","t","t","l","e"," ","t","e","s","t","s"," ","t","h","a","t"," ","v","e","r","i","f","y"," ","i","m","p","l","e","m","e","n","t","a","t","i","o","n"," ","r","a","t","h","e","r"," ","t","h","a","n"," ","b","e","h","a","v","i","o","r",".","\n">>
  \o <<"\n">>
  \o <<"O","u","r"," ","t","e","s","t","i","n","g"," ","p","h","i","l","o","s","o","p","h","y",":","\n">>
  \o <<"-"," ","T","e","s","t"," ","b","e","h","a","v","i","o","r"," ","a","n","d"," ","s","t","a","t","e"," ","c","h","a","n","g","e","s",","," ","n","o","t"," ","m","e","t","h","o","d"," ","c","a","l","l","s","\n">>
  \o <<"-"," ","U","s","e"," ","r","e","a","l"," ","t","e","s","t"," ","d","o","u","b","l","e","s"," ","w","i","t","h"," ","c","o","n","t","r","o","l","l","a","b","l","e"," ","b","e","h","a","v","i","o","r"," ","i","n","s","t","e","a","d"," ","o","f"," ","m","o","c","k"," ","f","u","n","c","t","i","o","n","s","\n">>
  \o <<"-"," ","T","e","s","t","s"," ","s","h","o","u","l","d"," ","v","e","r","i","f","y"," ","w","h","a","t"," ","t","h","e"," ","c","o","d","e"," ","d","o","e","s",","," ","n","o","t"," ","h","o","w"," ","i","t"," ","d","o","e","s"," ","i","t","\n">>
  \o <<"\n">>
  \o <<"I","n","s","t","e","a","d"," ","o","f"," ","m","o","c","k"," ","f","u","n","c","t","i","o","n","s",":","\n">>
  \o <<"1","."," ","U","s","e"," ","p","l","a","i","n"," ","f","u","n","c","t","i","o","n","s"," ","o","r"," ","o","b","j","e","c","t","s"," ","t","h","a","t"," ","r","e","t","u","r","n"," ","c","o","n","t","r","o","l","l","e","d"," ","v","a","l","u","e","s","\n">>
  \o <<"2","."," ","C","a","p","t","u","r","e"," ","s","t","a","t","e"," ","i","n"," ","a"," ","v","a","r","i","a","b","l","e"," ","t","o"," ","v","e","r","i","f","y"," ","w","h","a","t"," ","w","a","s"," ","p","a","s","s","e","d","\n">>
  \o <<"3","."," ","A","s","s","e","r","t"," ","o","n"," ","o","u","t","p","u","t","s"," ","a","n","d"," ","s","t","a","t","e"," ","c","h","a","n","g","e","s",","," ","n","o","t"," ","o","n"," ","c","a","l","l","s","\n">>
  \o <<"\n">>
  \o <<"E","x","a","m","p","l","e"," ","r","e","f","a","c","t","o","r","i","n","g",":","\n">>
  \o <<" "," ","/","/"," ","B","e","f","o","r","e",":"," ","M","o","c","k"," ","f","u","n","c","t","i","o","n"," ","w","i","t","h"," ","c","h","a","i","n","e","d"," ","m","e","t","h","o","d","s","\n">>
  \o <<" "," ","c","o","n","s","t"," ","m","o","c","k","F","n"," ","="," ","v","i",".","f","n","(",")",".","m","o","c","k","R","e","s","o","l","v","e","d","V","a","l","u","e","(","{"," ","d","a","t","a",":"," ","'","t","e","s","t","'"," ","}",")",";","\n">>
  \o <<" "," ","a","w","a","i","t"," ","s","e","r","v","i","c","e",".","p","r","o","c","e","s","s","(","m","o","c","k","F","n",")",";","\n">>
  \o <<" "," ","e","x","p","e","c","t","(","m","o","c","k","F","n",")",".","t","o","H","a","v","e","B","e","e","n","C","a","l","l","e","d","W","i","t","h","(","'","i","n","p","u","t","'",")",";","\n">>
  \o <<"\n">>
  \o <<" "," ","/","/"," ","A","f","t","e","r",":"," ","T","e","s","t"," ","d","o","u","b","l","e"," ","w","i","t","h"," ","s","t","a","t","e"," ","c","a","p","t","u","r","e","\n">>
  \o <<" "," ","c","o","n","s","t"," ","c","a","p","t","u","r","e","d",":"," ","{"," ","i","n","p","u","t",":"," ","s","t","r","i","n","g"," ","|"," ","n","u","l","l"," ","}"," ","="," ","{"," ","i","n","p","u","t",":"," ","n","u","l","l"," ","}",";","\n">>
  \o <<" "," ","c","o","n","s","t"," ","f","n"," ","="," ","a","s","y","n","c"," ","(","i","n","p","u","t",":"," ","s","t","r","i","n","g",")"," ","=",">"," ","{","\n">>
  \o <<" "," "," "," ","c","a","p","t","u","r","e","d",".","i","n","p","u","t"," ","="," ","i","n","p","u","t",";","\n">>
  \o <<" "," "," "," ","r","e","t","u","r","n"," ","{"," ","d","a","t","a",":"," ","'","t","e","s","t","'"," ","}",";","\n">>
  \o <<" "," ","}",";","\n">>
  \o <<" "," ","a","w","a","i","t"," ","s","e","r","v","i","c","e",".","p","r","o","c","e","s","s","(","f","n",")",";","\n">>
  \o <<" "," ","e","x","p","e","c","t","(","c","a","p","t","u","r","e","d",".","i","n","p","u","t",")",".","t","o","B","e","(","'","i","n","p","u","t","'",")",";","\n">>
  \o <<"\n">>
  \o <<"S","e","e"," ","C","L","A","U","D","E",".","m","d"," ","f","o","r"," ","m","o","r","e"," ","d","e","t","a","i","l","s"," ","o","n"," ","o","u","r"," ","t","e","s","t","i","n","g"," ","p","h","i","l","o","s","o","p","h","y",".">>

noViFnCheck(node, filePath) ==
  IF node.type = "call_expression" /\ functionText(node) = <<"v","i",".","f","n">>
    THEN report(filePath, node, ViFnMessage, "no-vi-fn")
  ELSE IF node.type = "call_expression"
    THEN LET functionNode == childForFieldName(node, "function") IN
      IF functionNode # NullNode /\ functionNode.type = "member_expression"
        THEN LET propertyNode == childForFieldName(functionNode, "property") IN
          IF propertyNode # NullNode /\ arrayIncludes(MOCK_METHODS, propertyNode.text)
            THEN report(filePath, node, ViFnMessage, "no-vi-fn")
          ELSE ReturnsNull
      ELSE ReturnsNull
  ELSE ReturnsNull

(* rules/noInteractionAssertions *)
FORBIDDEN_ASSERTIONS ==
  << <<"t","o","H","a","v","e","B","e","e","n","C","a","l","l","e","d">>, <<"t","o","H","a","v","e","B","e","e","n","C","a","l","l","e","d","W","i","t","h">>, <<"t","o","H","a","v","e","B","e","e","n","C","a","l","l","e","d","T","i","m","e","s">>,
     <<"t","o","H","a","v","e","B","e","e","n","N","t","h","C","a","l","l","e","d","W","i","t","h">>, <<"t","o","H","a","v","e","B","e","e","n","L","a","s","t","C","a","l","l","e","d","W","i","t","h">> >>
InteractionMessage ==
  <<"I","n","t","e","r","a","c","t","i","o","n","-","b","a","s","e","d"," ","a","s","s","e","r","t","i","o","n","s"," ","t","e","s","t"," ","i","m","p","l","e","m","e","n","t","a","t","i","o","n"," ","d","e","t","a","i","l","s"," ","r","a","t","h","e","r"," ","t","h","a","n"," ","b","e","h","a","v","i","o","r",".","\n">>
  \o <<"\n">>
  \o <<"O","u","r"," ","t","e","s","t","i","n","g"," ","p","h","i","l","o","s","o","p","h","y",":","\n">>
  \o <<"-"," ","F","o","c","u","s"," ","o","n"," ","w","h","a","t"," ","t","h","e"," ","c","o","d","e"," ","d","o","e","s"," ","(","o","u","t","p","u","t","s",","," ","s","t","a","t","e"," ","c","h","a","n","g","e","s",")"," ","n","o","t"," ","h","o","w"," ","i","t"," ","d","o","e","s"," ","i","t","\n">>
  \o <<"-"," ","S","t","a","t","e","-","b","a","s","e","d"," ","a","s","s","e","r","t","i","o","n","s"," ","a","r","e"," ","m","o","r","e"," ","r","e","s","i","s","t","a","n","t"," ","t","o"," ","r","e","f","a","c","t","o","r","i","n","g","\n">>
  \o <<"-"," ","T","e","s","t","s"," ","s","h","o","u","l","d"," ","v","e","r","i","f","y"," ","o","b","s","e","r","v","a","b","l","e"," ","b","e","h","a","v","i","o","r",","," ","n","o","t"," ","i","n","t","e","r","n","a","l"," ","m","e","t","h","o","d"," ","c","a","l","l","s","\n">>
  \o <<"\n">>
  \o <<"W","h","y"," ","t","h","i","s"," ","m","a","t","t","e","r","s",":","\n">>
  \o <<"-"," ","Y","o","u","r"," ","t","e","s","t"," ","b","r","e","a","k","s"," ","w","h","e","n"," ","y","o","u"," ","r","e","f","a","c","t","o","r",","," ","e","v","e","n"," ","i","f"," ","b","e","h","a","v","i","o","r"," ","i","s"," ","u","n","c","h","a","n","g","e","d","\n">>
  \o <<"-"," ","I","t"," ","c","o","u","p","l","e","s"," ","t","e","s","t","s"," ","t","o"," ","i","m","p","l","e","m","e","n","t","a","t","i","o","n",","," ","m","a","k","i","n","g"," ","c","o","d","e"," ","h","a","r","d","e","r"," ","t","o"," ","c","h","a","n","g","e","\n">>
  \o <<"-"," ","I","t"," ","d","o","e","s","n","'","t"," ","v","e","r","i","f","y"," ","t","h","e"," ","c","o","d","e"," ","a","c","t","u","a","l","l","y"," ","w","o","r","k","s",","," ","j","u","s","t"," ","t","h","a","t"," ","m","e","t","h","o","d","s"," ","w","e","r","e"," ","c","a","l","l","e","d","\n">>
  \o <<"\n">>
  \o <<"I","n","s","t","e","a","d"," ","o","f"," ","v","e","r","i","f","y","i","n","g"," ","m","e","t","h","o","d"," ","c","a","l","l","s",":","\n">>
  \o <<"1","."," ","A","s","s","e","r","t"," ","o","n"," ","t","h","e"," ","f","i","n","a","l"," ","s","t","a","t","e"," ","o","r"," ","o","u","t","p","u","t"," ","o","f"," ","t","h","e"," ","o","p","e","r","a","t","i","o","n","\n">>
  \o <<"2","."," ","C","h","e","c","k"," ","f","o","r"," ","o","b","s","e","r","v","a","b","l","e"," ","s","i","d","e"," ","e","f","f","e","c","t","s"," ","(","D","O","M"," ","c","h","a","n","g","e","s",","," ","s","t","a","t","e"," ","u","p","d","a","t","e","s",","," ","e","t","c",".",")","\n">>
  \o <<"3","."," ","V","e","r","i","f","y"," ","t","h","e"," ","b","e","h","a","v","i","o","r"," ","f","r","o","m"," ","t","h","e"," ","u","s","e","r","'","s"," ","p","e","r","s","p","e","c","t","i","v","e","\n">>
  \o <<"\n">>
  \o <<"E","x","a","m","p","l","e"," ","r","e","f","a","c","t","o","r","i","n","g",":","\n">>
  \o <<" "," ","/","/"," ","B","e","f","o","r","e",":"," ","T","e","s","t","i","n","g"," ","i","m","p","l","e","m","e","n","t","a","t","i","o","n"," ","(","f","r","a","g","i","l","e",")","\n">>
  \o <<" "," ","c","o","n","s","t"," ","s","p","y"," ","="," ","v","i",".","s","p","y","O","n","(","l","o","g","g","e","r",","," ","'","l","o","g","'",")",";","\n">>
  \o <<" "," ","p","r","o","c","e","s","s","O","r","d","e","r","(","o","r","d","e","r",")",";","\n">>
  \o <<" "," ","e","x","p","e","c","t","(","s","p","y",")",".","t","o","H","a","v","e","B","e","e","n","C","a","l","l","e","d","W","i","t","h","(","'","O","r","d","e","r"," ","p","r","o","c","e","s","s","e","d","'",")",";","\n">>
  \o <<"\n">>
  \o <<" "," ","/","/"," ","A","f","t","e","r",":"," ","T","e","s","t","i","n","g"," ","b","e","h","a","v","i","o","r"," ","(","r","o","b","u","s","t",")","\n">>
  \o <<" "," ","c","o","n","s","t"," ","r","e","s","u","l","t"," ","="," ","p","r","o","c","e","s","s","O","r","d","e","r","(","o","r","d","e","r",")",";","\n">>
  \o <<" "," ","e","x","p","e","c","t","(","r","e","s","u","l","t",".","s","t","a","t","u","s",")",".","t","o","B","e","(","'","c","o","m","p","l","e","t","e","d","'",")",";","\n">>
  \o <<" "," ","e","x","p","e","c","t","(","r","e","s","u","l","t",".","m","e","s","s","a","g","e",")",".","t","o","B","e","(","'","O","r","d","e","r"," ","p","r","o","c","e","s","s","e","d","'",")",";","\n">>
  \o <<"\n">>
  \o <<"S","e","e"," ","C","L","A","U","D","E",".","m","d"," ","f","o","r"," ","m","o","r","e"," ","d","e","t","a","i","l","s"," ","o","n"," ","b","e","h","a","v","i","o","r","-","d","r","i","v","e","n"," ","t","e","s","t","i","n","g",".">>

\* propertyNode.text throws when the member expression has no property child
noInteractionAssertionsCheck(node, filePath) ==
  IF node.type = "member_expression"
    THEN LET propertyNode == childForFieldName(node, "property") IN
      IF propertyNode = NullNode THEN Throws
      ELSE IF arrayIncludes(FORBIDDEN_ASSERTIONS, propertyNode.text)
        THEN report(filePath, node, InteractionMessage, "no-interaction-assertions")
      ELSE ReturnsNull
  ELSE ReturnsNull

(* rules/noMisleadingTestDoubleNames *)
MisleadingNameMessage ==
  <<"T","h","e"," ","t","e","r","m"," ","\"","m","o","c","k","\""," ","h","a","s"," ","a"," ","s","p","e","c","i","f","i","c"," ","m","e","a","n","i","n","g"," ","i","n"," ","t","e","s","t","i","n","g"," ","a","n","d"," ","s","h","o","u","l","d"," ","o","n","l","y"," ","b","e"," ","u","s","e","d"," ","f","o","r"," ","i","n","t","e","r","a","c","t","i","o","n"," ","v","e","r","i","f","i","c","a","t","i","o","n",".","\n">>
  \o <<"\n">>
  \o <<"O","u","r"," ","t","e","s","t","i","n","g"," ","p","h","i","l","o","s","o","p","h","y"," ","d","i","s","t","i","n","g","u","i","s","h","e","s"," ","b","e","t","w","e","e","n",":","\n">>
  \o <<"-"," ","*","*","M","o","c","k","s","*","*",":"," ","T","e","s","t"," ","d","o","u","b","l","e","s"," ","t","h","a","t"," ","v","e","r","i","f","y"," ","m","e","t","h","o","d"," ","c","a","l","l","s"," ","a","n","d"," ","i","n","t","e","r","a","c","t","i","o","n","s"," ","(","v","i",".","m","o","c","k",","," ","v","i",".","s","p","y","O","n",")","\n">>
  \o <<"-"," ","*","*","F","a","k","e","s","*","*",":"," ","T","e","s","t"," ","d","o","u","b","l","e","s"," ","w","i","t","h"," ","w","o","r","k","i","n","g"," ","i","m","p","l","e","m","e","n","t","a","t","i","o","n","s"," ","b","u","t"," ","s","i","m","p","l","i","f","i","e","d"," ","b","e","h","a","v","i","o","r","\n">>
  \o <<"-"," ","*","*","N","u","l","l","a","b","l","e","s","*","*",":"," ","T","e","s","t"," ","d","o","u","b","l","e","s"," ","w","i","t","h"," ","\"","o","f","f"," ","s","w","i","t","c","h","e","s","\""," ","t","o"," ","p","r","e","v","e","n","t"," ","e","x","t","e","r","n","a","l"," ","i","n","t","e","r","a","c","t","i","o","n","s","\n">>
  \o <<"\n">>
  \o <<"W","h","y"," ","n","a","m","i","n","g"," ","m","a","t","t","e","r","s",":","\n">>
  \o <<"-"," ","\"","M","o","c","k","\""," ","i","m","p","l","i","e","s"," ","i","n","t","e","r","a","c","t","i","o","n","-","b","a","s","e","d"," ","t","e","s","t","i","n","g",","," ","w","h","i","c","h"," ","w","e"," ","a","v","o","i","d","\n">>
  \o <<"-"," ","U","s","i","n","g"," ","\"","m","o","c","k","\""," ","f","o","r"," ","f","a","k","e","s","/","n","u","l","l","a","b","l","e","s"," ","c","r","e","a","t","e","s"," ","c","o","n","c","e","p","t","u","a","l"," ","c","o","n","f","u","s","i","o","n","\n">>
  \o <<"-"," ","C","l","e","a","r"," ","n","a","m","i","n","g"," ","h","e","l","p","s"," ","m","a","i","n","t","a","i","n"," ","o","u","r"," ","s","t","a","t","e","-","b","a","s","e","d"," ","t","e","s","t","i","n","g"," ","p","h","i","l","o","s","o","p","h","y","\n">>
  \o <<"\n">>
  \o <<"N","a","m","i","n","g"," ","c","o","n","v","e","n","t","i","o","n","s",":","\n">>
  \o <<"1","."," ","U","s","e"," ","U+0060","c","r","e","a","t","e","F","a","k","e","*","U+0060"," ","f","o","r"," ","o","b","j","e","c","t","s"," ","w","i","t","h"," ","c","o","n","t","r","o","l","l","e","d",","," ","w","o","r","k","i","n","g"," ","b","e","h","a","v","i","o","r","\n">>
  \o <<"2","."," ","U","s","e"," ","U+0060","c","r","e","a","t","e","N","u","l","l","*","U+0060"," ","f","o","r"," ","o","b","j","e","c","t","s"," ","f","o","l","l","o","w","i","n","g"," ","t","h","e"," ","n","u","l","l","a","b","l","e","s"," ","p","a","t","t","e","r","n","\n">>
  \o <<"3","."," ","R","e","s","e","r","v","e"," ","\"","m","o","c","k","\""," ","p","r","e","f","i","x"," ","o","n","l","y"," ","f","o","r"," ","a","c","t","u","a","l"," ","v","i","t","e","s","t"," ","m","o","c","k","s"," ","(","w","h","i","c","h"," ","w","e"," ","a","v","o","i","d",")","\n">>
  \o <<"\n">>
  \o <<"E","x","a","m","p","l","e"," ","r","e","f","a","c","t","o","r","i","n","g",":","\n">>
  \o <<" "," ","/","/"," ","B","e","f","o","r","e",":"," ","M","i","s","l","e","a","d","i","n","g"," ","n","a","m","e","\n">>
  \o <<" "," ","f","u","n","c","t","i","o","n"," ","c","r","e","a","t","e","M","o","c","k","E","v","e","n","t","Q","u","e","u","e","(",")"," ","{","\n">>
  \o <<" "," "," "," ","r","e","t","u","r","n"," ","n","e","w"," ","E","v","e","n","t","Q","u","e","u","e","(",")",";","\n">>
  \o <<" "," ","}","\n">>
  \o <<"\n">>
  \o <<" "," ","/","/"," ","A","f","t","e","r",":"," ","C","l","e","a","r"," ","i","n","t","e","n","t","\n">>
  \o <<" "," ","f","u","n","c","t","i","o","n"," ","c","r","e","a","t","e","F","a","k","e","E","v","e","n","t","Q","u","e","u","e","(",")"," ","{","\n">>
  \o <<" "," "," "," ","r","e","t","u","r","n"," ","n","e","w"," ","E","v","e","n","t","Q","u","e","u","e","(",")",";","\n">>
  \o <<" "," ","}","\n">>
  \o <<"\n">>
  \o <<" "," ","/","/"," ","O","r",","," ","f","o","r"," ","n","u","l","l","a","b","l","e"," ","p","a","t","t","e","r","n",":","\n">>
  \o <<" "," ","f","u","n","c","t","i","o","n"," ","c","r","e","a","t","e","N","u","l","l","E","v","e","n","t","Q","u","e","u","e","(",")"," ","{","\n">>
  \o <<" "," "," "," ","r","e","t","u","r","n"," ","E","v","e","n","t","Q","u","e","u","e",".","c","r","e","a","t","e","N","u","l","l","(",")",";","\n">>
  \o <<" "," ","}","\n">>
  \o <<"\n">>
  \o <<"S","e","e"," ","C","L","A","U","D","E",".","m","d"," ","s","e","c","t","i","o","n"," ","\"","W","r","i","t","i","n","g"," ","T","e","s","t","a","b","l","e"," ","C","o","d","e"," ",">"," ","N","u","l","l","a","b","l","e","s"," ","P","a","t","t","e","r","n","\""," ","f","o","r"," ","m","o","r","e"," ","d","e","t","a","i","l","s",".">>

\* text.includes('vi.mock') || text.includes('vi.spyOn') || text.includes('vi.fn')
usesViMock(text) ==
  \/ includes(text, <<"v","i",".","m","o","c","k">>)
  \/ includes(text, <<"v","i",".","s","p","y","O","n">>)
  \/ includes(text, <<"v","i",".","f","n">>)

\* node.childForFieldName(name)?.text || ''
textOrEmpty(node, name) ==
  IF childForFieldName(node, name) = NullNode THEN <<>>
  ELSE childForFieldName(node, name).text

\* nameNode?.startPosition || node.startPosition
nameOrNode(node) ==
  IF childForFieldName(node, "name") = NullNode THEN node
  ELSE childForFieldName(node, "name")

noMisleadingTestDoubleNamesCheck(node, filePath) ==
  IF ~endsWith(filePath, TestSuffixTs) THEN ReturnsNull
  ELSE IF /\ node.type = "function_declaration"
          /\ \/ startsWith(textOrEmpty(node, "name"), <<"c","r","e","a","t","e","M","o","c","k">>)
             \/ startsWith(textOrEmpty(node, "name"), <<"m","a","k","e","M","o","c","k">>)
          /\ ~usesViMock(textOrEmpty(node, "body"))
    THEN report(filePath, nameOrNode(node), MisleadingNameMessage,
              "no-misleading-test-double-names")
  ELSE IF /\ node.type = "variable_declarator"
          /\ startsWith(textOrEmpty(node, "name"), <<"m","o","c","k">>)
          /\ textOrEmpty(node, "name") # <<"m","o","c","k">>
          /\ ~usesViMock(textOrEmpty(node, "value"))
    THEN report(filePath, nameOrNode(node), MisleadingNameMessage,
              "no-misleading-test-double-names")
  ELSE ReturnsNull

(* extractTestName, of both test-name rules *)

\* the first named child of args from i on that is a string, or NullNode
RECURSIVE firstStringArgument(_, _)
firstStringArgument(args, i) ==
  IF i >= namedChildCount(args) THEN NullNode
  ELSE IF namedChild(args, i).type = "string" THEN namedChild(args, i)
  ELSE firstStringArgument(args, i + 1)

\* s.substring(start, end): both indices are brought into 0..s.length, and
\* the smaller of the two is where the result starts.
substring(s, start, end) ==
  LET clamp(n) == IF n < 0 THEN 0 ELSE IF n > Len(s) THEN Len(s) ELSE n
      a == clamp(start)
      b == clamp(end)
  IN SubSeq(s, (IF a < b THEN a ELSE b) + 1, IF a < b THEN b ELSE a)

\* text.substring(1, text.length - 1) of the first string argument's text: the
\* text without its first and last character (a text of one character gives
\* that character, as substring(1, 0) is substring(0, 1)), or Null when no
\* argument is a string. (The arguments child is taken to exist.)
extractTestName(node) ==
  LET arg == firstStringArgument(childForFieldName(node, "arguments"), 0)
  IN IF arg = NullNode THEN Null
     ELSE substring(arg.text, 1, Len(arg.text) - 1)

\* functionName === 'test' || functionName === 'it'
isTestCall(node) ==
  /\ node.type = "call_expression"
  /\ functionText(node) \in { <<"t","e","s","t">>, <<"i","t">> }

(* rules/noTestNameWithShould *)
ShouldMessage ==
  <<"T","e","s","t"," ","n","a","m","e","s"," ","s","h","o","u","l","d"," ","s","t","a","t","e"," ","f","a","c","t","s",","," ","n","o","t"," ","w","i","s","h","e","s"," ","o","r"," ","e","x","p","e","c","t","a","t","i","o","n","s"," ","u","s","i","n","g"," ","\"","s","h","o","u","l","d","\"",".","\n">>
  \o <<"\n">>
  \o <<"O","u","r"," ","t","e","s","t"," ","n","a","m","i","n","g"," ","p","h","i","l","o","s","o","p","h","y",":","\n">>
  \o <<"-"," ","A"," ","t","e","s","t"," ","i","s"," ","a","n"," ","a","t","o","m","i","c"," ","f","a","c","t"," ","a","b","o","u","t"," ","s","y","s","t","e","m"," ","b","e","h","a","v","i","o","r","\n">>
  \o <<"-"," ","T","e","s","t","s"," ","a","r","e"," ","s","p","e","c","i","f","i","c","a","t","i","o","n","s",","," ","n","o","t"," ","a","s","p","i","r","a","t","i","o","n","s","\n">>
  \o <<"-"," ","U","s","e"," ","d","e","c","l","a","r","a","t","i","v","e"," ","l","a","n","g","u","a","g","e"," ","t","h","a","t"," ","s","t","a","t","e","s"," ","w","h","a","t"," ","I","S",","," ","n","o","t"," ","w","h","a","t"," ","S","H","O","U","L","D"," ","B","E","\n">>
  \o <<"-"," ","T","e","s","t","s"," ","d","o","c","u","m","e","n","t"," ","a","c","t","u","a","l"," ","b","e","h","a","v","i","o","r"," ","w","i","t","h"," ","c","o","n","f","i","d","e","n","c","e","\n">>
  \o <<"\n">>
  \o <<"W","h","y"," ","a","v","o","i","d"," ","\"","s","h","o","u","l","d","\"",":","\n">>
  \o <<"-"," ","\"","S","h","o","u","l","d","\""," ","s","o","u","n","d","s"," ","a","s","p","i","r","a","t","i","o","n","a","l"," ","o","r"," ","u","n","c","e","r","t","a","i","n","\n">>
  \o <<"-"," ","T","e","s","t","s"," ","v","e","r","i","f","y"," ","f","a","c","t","s",","," ","n","o","t"," ","h","y","p","o","t","h","e","t","i","c","a","l","s","\n">>
  \o <<"-"," ","W","e","a","k","e","n","s"," ","t","h","e"," ","a","u","t","h","o","r","i","t","y"," ","o","f"," ","t","e","s","t","s"," ","a","s"," ","s","p","e","c","i","f","i","c","a","t","i","o","n","s","\n">>
  \o <<"-"," ","C","r","e","a","t","e","s"," ","d","i","s","t","a","n","c","e"," ","b","e","t","w","e","e","n"," ","t","e","s","t"," ","a","n","d"," ","t","h","e"," ","b","e","h","a","v","i","o","r"," ","i","t"," ","v","e","r","i","f","i","e","s","\n">>
  \o <<"\n">>
  \o <<"E","x","a","m","p","l","e"," ","r","e","f","a","c","t","o","r","i","n","g",":","\n">>
  \o <<" "," ","/","/"," ","B","e","f","o","r","e",":"," ","A","s","p","i","r","a","t","i","o","n","a","l"," ","l","a","n","g","u","a","g","e","\n">>
  \o <<" "," ","t","e","s","t","(","\"","p","l","a","y","e","r"," ","s","h","o","u","l","d"," ","r","e","s","p","a","w","n"," ","a","t"," ","c","h","e","c","k","p","o","i","n","t","\"",")","\n">>
  \o <<" "," ","t","e","s","t","(","\"","g","a","m","e"," ","s","h","o","u","l","d"," ","p","a","u","s","e"," ","w","h","e","n"," ","w","i","n","d","o","w"," ","l","o","s","e","s"," ","f","o","c","u","s","\"",")","\n">>
  \o <<" "," ","t","e","s","t","(","\"","d","a","m","a","g","e"," ","s","h","o","u","l","d"," ","n","o","t"," ","e","x","c","e","e","d"," ","m","a","x"," ","h","e","a","l","t","h","\"",")","\n">>
  \o <<"\n">>
  \o <<" "," ","/","/"," ","A","f","t","e","r",":"," ","F","a","c","t","u","a","l"," ","l","a","n","g","u","a","g","e","\n">>
  \o <<" "," ","t","e","s","t","(","\"","p","l","a","y","e","r"," ","r","e","s","p","a","w","n","s"," ","a","t"," ","c","h","e","c","k","p","o","i","n","t","\"",")","\n">>
  \o <<" "," ","t","e","s","t","(","\"","g","a","m","e"," ","p","a","u","s","e","s"," ","w","h","e","n"," ","w","i","n","d","o","w"," ","l","o","s","e","s"," ","f","o","c","u","s","\"",")","\n">>
  \o <<" "," ","t","e","s","t","(","\"","d","a","m","a","g","e"," ","d","o","e","s"," ","n","o","t"," ","e","x","c","e","e","d"," ","m","a","x"," ","h","e","a","l","t","h","\"",")","\n">>
  \o <<"\n">>
  \o <<"T","h","i","s"," ","i","s"," ","a"," ","s","i","m","p","l","e"," ","b","u","t"," ","i","m","p","o","r","t","a","n","t"," ","d","i","s","t","i","n","c","t","i","o","n"," ","-"," ","y","o","u","r"," ","t","e","s","t","s"," ","a","r","e"," ","e","x","e","c","u","t","a","b","l","e"," ","s","p","e","c","i","f","i","c","a","t","i","o","n","s","\n">>
  \o <<"o","f"," ","h","o","w"," ","t","h","e"," ","s","y","s","t","e","m"," ","b","e","h","a","v","e","s",","," ","n","o","t"," ","s","u","g","g","e","s","t","i","o","n","s"," ","f","o","r"," ","h","o","w"," ","i","t"," ","m","i","g","h","t"," ","b","e","h","a","v","e",".","\n">>
  \o <<"\n">>
  \o <<"S","e","e"," ","C","L","A","U","D","E",".","m","d"," ","s","e","c","t","i","o","n"," ","\"","T","e","s","t"," ","N","a","m","i","n","g"," ",">"," ","S","t","a","t","e"," ","F","a","c","t","s",","," ","N","o","t"," ","E","x","p","e","c","t","a","t","i","o","n","s","\""," ","f","o","r"," ","m","o","r","e"," ","d","e","t","a","i","l","s",".">>

noTestNameWithShouldCheck(node, filePath) ==
  IF ~endsWith(filePath, TestSuffixTs) THEN ReturnsNull
  ELSE IF ~isTestCall(node) THEN ReturnsNull
  ELSE IF childForFieldName(node, "arguments") = NullNode THEN Throws
  ELSE LET testName == extractTestName(node) IN
    IF testName = <<>> THEN ReturnsNull
    ELSE IF includes(testName, <<"s","h","o","u","l","d">>)
      THEN report(filePath, node, ShouldMessage, "no-test-name-with-should")
    ELSE ReturnsNull

(* rules/noTestNameWithMethodNames *)
MethodNamesMessage ==
  <<"T","e","s","t"," ","n","a","m","e","s"," ","s","h","o","u","l","d"," ","d","e","s","c","r","i","b","e"," ","b","e","h","a","v","i","o","r",","," ","n","o","t"," ","r","e","f","e","r","e","n","c","e"," ","i","m","p","l","e","m","e","n","t","a","t","i","o","n"," ","m","e","t","h","o","d","s",".","\n">>
  \o <<"\n">>
  \o <<"O","u","r"," ","t","e","s","t"," ","n","a","m","i","n","g"," ","p","h","i","l","o","s","o","p","h","y",":","\n">>
  \o <<"-"," ","F","o","c","u","s"," ","o","n"," ","w","h","a","t"," ","t","h","e"," ","s","y","s","t","e","m"," ","d","o","e","s",","," ","n","o","t"," ","h","o","w"," ","i","t","'","s"," ","t","e","s","t","e","d","\n">>
  \o <<"-"," ","U","s","e"," ","p","l","a","i","n"," ","E","n","g","l","i","s","h"," ","t","h","a","t"," ","n","o","n","-","p","r","o","g","r","a","m","m","e","r","s"," ","c","a","n"," ","u","n","d","e","r","s","t","a","n","d","\n">>
  \o <<"-"," ","F","o","l","l","o","w"," ","t","h","e"," ","A","C","E"," ","f","r","a","m","e","w","o","r","k",":"," ","A","c","t","i","o","n",","," ","C","o","n","d","i","t","i","o","n",","," ","E","x","p","e","c","t","a","t","i","o","n","\n">>
  \o <<"-"," ","T","e","s","t","s"," ","d","o","c","u","m","e","n","t"," ","b","e","h","a","v","i","o","r",","," ","n","o","t"," ","c","o","d","e"," ","s","t","r","u","c","t","u","r","e","\n">>
  \o <<"\n">>
  \o <<"W","h","y"," ","a","v","o","i","d"," ","m","e","t","h","o","d"," ","n","a","m","e","s"," ","i","n"," ","t","e","s","t","s",":","\n">>
  \o <<"-"," ","T","e","s","t","s"," ","c","o","u","p","l","e","d"," ","t","o"," ","m","e","t","h","o","d"," ","n","a","m","e","s"," ","b","r","e","a","k"," ","w","h","e","n"," ","y","o","u"," ","r","e","f","a","c","t","o","r","\n">>
  \o <<"-"," ","M","e","t","h","o","d"," ","n","a","m","e","s"," ","a","r","e"," ","i","m","p","l","e","m","e","n","t","a","t","i","o","n"," ","d","e","t","a","i","l","s",","," ","n","o","t"," ","u","s","e","r"," ","b","e","h","a","v","i","o","r","\n">>
  \o <<"-"," ","T","e","s","t","s"," ","s","h","o","u","l","d"," ","s","u","r","v","i","v","e"," ","r","e","n","a","m","i","n","g"," ","a","n","d"," ","r","e","s","t","r","u","c","t","u","r","i","n","g","\n">>
  \o <<"-"," ","B","e","h","a","v","i","o","r"," ","i","s"," ","w","h","a","t"," ","m","a","t","t","e","r","s",","," ","n","o","t"," ","t","h","e"," ","s","p","e","c","i","f","i","c"," ","f","u","n","c","t","i","o","n"," ","n","a","m","e","\n">>
  \o <<"\n">>
  \o <<"N","a","m","i","n","g"," ","p","a","t","t","e","r","n"," ","t","o"," ","f","o","l","l","o","w",":","\n">>
  \o <<"1","."," ","*","*","A","c","t","i","o","n","*","*",":"," ","W","h","a","t"," ","f","u","n","c","t","i","o","n","a","l","i","t","y"," ","i","s"," ","b","e","i","n","g"," ","t","e","s","t","e","d","\n">>
  \o <<"2","."," ","*","*","C","o","n","d","i","t","i","o","n","*","*",":"," ","U","n","d","e","r"," ","w","h","a","t"," ","c","i","r","c","u","m","s","t","a","n","c","e","s","\n">>
  \o <<"3","."," ","*","*","E","x","p","e","c","t","a","t","i","o","n","*","*",":"," ","W","i","t","h"," ","w","h","a","t"," ","e","x","p","e","c","t","e","d"," ","r","e","s","u","l","t","\n">>
  \o <<"\n">>
  \o <<"E","x","a","m","p","l","e"," ","r","e","f","a","c","t","o","r","i","n","g",":","\n">>
  \o <<" "," ","/","/"," ","B","e","f","o","r","e",":"," ","R","e","f","e","r","e","n","c","e","s"," ","m","e","t","h","o","d"," ","n","a","m","e","\n">>
  \o <<" "," ","t","e","s","t","(","\"","c","a","l","c","u","l","a","t","e","D","a","m","a","g","e"," ","r","e","t","u","r","n","s"," ","c","o","r","r","e","c","t"," ","v","a","l","u","e","\"",")","\n">>
  \o <<" "," ","t","e","s","t","(","\"","t","a","k","e","D","a","m","a","g","e"," ","r","e","d","u","c","e","s"," ","h","e","a","l","t","h","\"",")","\n">>
  \o <<" "," ","t","e","s","t","(","\"","i","s","P","l","a","y","e","r","D","e","a","d"," ","c","h","e","c","k","s"," ","z","e","r","o"," ","h","e","a","l","t","h","\"",")","\n">>
  \o <<"\n">>
  \o <<" "," ","/","/"," ","A","f","t","e","r",":"," ","D","e","s","c","r","i","b","e","s"," ","b","e","h","a","v","i","o","r","\n">>
  \o <<" "," ","t","e","s","t","(","\"","d","a","m","a","g","e"," ","i","s"," ","a","t","t","a","c","k"," ","p","o","w","e","r"," ","m","i","n","u","s"," ","d","e","f","e","n","s","e","\"",")","\n">>
  \o <<" "," ","t","e","s","t","(","\"","h","e","a","l","t","h"," ","d","e","c","r","e","a","s","e","s"," ","w","h","e","n"," ","p","l","a","y","e","r"," ","t","a","k","e","s"," ","d","a","m","a","g","e","\"",")","\n">>
  \o <<" "," ","t","e","s","t","(","\"","p","l","a","y","e","r"," ","w","i","t","h"," ","z","e","r","o"," ","h","e","a","l","t","h"," ","i","s"," ","d","e","a","d","\"",")","\n">>
  \o <<"\n">>
  \o <<"S","e","e"," ","C","L","A","U","D","E",".","m","d"," ","s","e","c","t","i","o","n"," ","\"","T","e","s","t"," ","N","a","m","i","n","g","\""," ","f","o","r"," ","m","o","r","e"," ","d","e","t","a","i","l","s"," ","a","n","d"," ","e","x","a","m","p","l","e","s",".">>

MethodPrefixes ==
  { <<"g","e","t">>, <<"s","e","t">>, <<"i","s">>, <<"h","a","s">>, <<"s","h","o","u","l","d">>, <<"c","a","n">>, <<"w","i","l","l">>, <<"c","r","e","a","t","e">>,
    <<"u","p","d","a","t","e">>, <<"d","e","l","e","t","e">>, <<"r","e","m","o","v","e">>, <<"a","d","d">>, <<"i","n","s","e","r","t">>, <<"f","e","t","c","h">>, <<"l","o","a","d">>,
    <<"s","a","v","e">>, <<"c","l","e","a","r">>, <<"r","e","s","e","t">>, <<"i","n","i","t","i","a","l","i","z","e">>, <<"c","a","l","c","u","l","a","t","e">>, <<"c","o","m","p","u","t","e">>,
    <<"p","r","o","c","e","s","s">>, <<"h","a","n","d","l","e">>, <<"v","a","l","i","d","a","t","e">>, <<"c","h","e","c","k">>, <<"v","e","r","i","f","y">>, <<"t","e","s","t">>, <<"r","u","n">>,
    <<"e","x","e","c","u","t","e">>, <<"a","p","p","l","y">>, <<"p","e","r","f","o","r","m">>, <<"t","a","k","e">>, <<"g","i","v","e">>, <<"m","a","k","e">> }

isLower(c) == \E k \in 1..Len(LowerCase) : LowerCase[k] = c
isUpper(c) == \E k \in 1..Len(UpperCase) : UpperCase[k] = c

\* /^(get|set|...|make)[A-Z]/
startsWithMethodPrefix(str) ==
  \E p \in MethodPrefixes :
    /\ startsWith(str, p)
    /\ Len(str) > Len(p)
    /\ isUpper(str[Len(p) + 1])

\* /^[a-z]+[A-Z][a-z]+\([^)]*\)/
looksLikeCamelCaseCall(str) ==
  \E i, j, k \in 1..Len(str) :
    /\ i >= 2 /\ j >= i + 2 /\ k > j
    /\ \A n \in 1..(i - 1) : isLower(str[n])
    /\ isUpper(str[i])
    /\ \A n \in (i + 1)..(j - 1) : isLower(str[n])
    /\ str[j] = "("
    /\ str[k] = ")"
    /\ \A n \in (j + 1)..(k - 1) : str[n] # ")"

looksLikeFunctionCall(str) ==
  startsWithMethodPrefix(str) \/ looksLikeCamelCaseCall(str)

\* testName.split(' ')
RECURSIVE splitOnSpace(_, _)
splitOnSpace(s, word) ==
  IF s = <<>> THEN <<word>>
  ELSE IF Head(s) = " " THEN <<word>> \o splitOnSpace(Tail(s), <<>>)
  ELSE splitOnSpace(Tail(s), Append(word, Head(s)))

noTestNameWithMethodNamesCheck(node, filePath) ==
  IF ~endsWith(filePath, TestSuffixTs) THEN ReturnsNull
  ELSE IF ~isTestCall(node) THEN ReturnsNull
  ELSE IF childForFieldName(node, "arguments") = NullNode THEN Throws
  ELSE LET testName == extractTestName(node) IN
    IF testName = <<>> THEN ReturnsNull
    ELSE LET words == splitOnSpace(testName, <<>>) IN
      IF \E w \in 1..Len(words) : looksLikeFunctionCall(words[w])
        THEN report(filePath, node, MethodNamesMessage, "no-test-name-with-method-names")
      ELSE ReturnsNull

-----------------------------------------------------------------------------
(* The rule of the engine's own tests: flags an identifier with a given    *)
(* text ('foo' for rule-1).                                                *)

FooMessage == <<"f","o","o"," ","n","o","t"," ","a","l","l","o","w","e","d">>

identifierCheck(node, filePath) ==
  IF node.type = "identifier" /\ node.text = <<"f","o","o">>
    THEN Returns(LintError(filePath, node, FooMessage, "rule-1"))
  ELSE ReturnsNull

-----------------------------------------------------------------------------
(* Rule objects: { name, check }; a configured rule closes over its config *)

NoConfig ==
  [domainPath |-> <<>>, importAlias |-> <<>>, rootFiles |-> <<>>, dependencies |-> <<>>]

createDomainDependenciesRule(config) == [name |-> "domain-dependencies", config |-> config]
noDirectShadcnImportsRule == [name |-> "no-direct-shadcn-imports", config |-> NoConfig]
createNoPrimitiveObsessionRule(config) == [name |-> "no-primitive-obsession", config |-> config]
noSpyOnRule == [name |-> "no-spy-on", config |-> NoConfig]
noViFnRule == [name |-> "no-vi-fn", config |-> NoConfig]
noViMockRule == [name |-> "no-vi-mock", config |-> NoConfig]
noViMockedRule == [name |-> "no-vi-mocked", config |-> NoConfig]
noViStubRule == [name |-> "no-vi-stub", config |-> NoConfig]
noInteractionAssertionsRule == [name |-> "no-interaction-assertions", config |-> NoConfig]
noMisleadingTestDoubleNamesRule == [name |-> "no-misleading-test-double-names", config |-> NoConfig]
noTestNameWithMethodNamesRule == [name |-> "no-test-name-with-method-names", config |-> NoConfig]
noTestNameWithShouldRule == [name |-> "no-test-name-with-should", config |-> NoConfig]
rule1 == [name |-> "rule-1", config |-> NoConfig]

\* rule.check(node, filePath)
ruleCheck(rule, node, filePath) ==
  CASE rule.name = "domain-dependencies" -> domainCheck(rule.config, node, filePath)
    [] rule.name = "no-direct-shadcn-imports" -> shadcnCheck(node, filePath)
    [] rule.name = "no-primitive-obsession" -> primitiveCheck(rule.config, node, filePath)
    [] rule.name = "no-spy-on" -> noSpyOnCheck(node, filePath)
    [] rule.name = "no-vi-fn" -> noViFnCheck(node, filePath)
    [] rule.name = "no-vi-mock" -> noViMockCheck(node, filePath)
    [] rule.name = "no-vi-mocked" -> noViMockedCheck(node, filePath)
    [] rule.name = "no-vi-stub" -> noViStubCheck(node, filePath)
    [] rule.name = "no-interaction-assertions" -> noInteractionAssertionsCheck(node, filePath)
    [] rule.name = "no-misleading-test-double-names" -> noMisleadingTestDoubleNamesCheck(node, filePath)
    [] rule.name = "no-test-name-with-method-names" -> noTestNameWithMethodNamesCheck(node, filePath)
    [] rule.name = "no-test-name-with-should" -> noTestNameWithShouldCheck(node, filePath)
    [] rule.name = "rule-1" -> identifierCheck(node, filePath)

-----------------------------------------------------------------------------
(* Parsed sources: what parser.parse(sourceCode) returns for the sources   *)
(* the model lints, as the TypeScript grammar parses them.                 *)

SourceImportThenConst ==
  <<"i","m","p","o","r","t"," ","f","o","o"," ","f","r","o","m"," ","'","@","/","d","o","m","a","i","n","/","s","h","a","d","c","n","/","x","'",";","\n","c","o","n","s","t"," ","b","a","r"," ","="," ","f","o","o",";">>

TreeImportThenConst ==
  [type |-> "program", named |-> TRUE, text |-> <<"i","m","p","o","r","t"," ","f","o","o"," ","f","r","o","m"," ","'","@","/","d","o","m","a","i","n","/","s","h","a","d","c","n","/","x","'",";","\n","c","o","n","s","t"," ","b","a","r"," ","="," ","f","o","o",";">>,
   row |-> 0, column |-> 0, fields |-> <<>>,
   children |-> <<
      [type |-> "import_statement", named |-> TRUE, text |-> <<"i","m","p","o","r","t"," ","f","o","o"," ","f","r","o","m"," ","'","@","/","d","o","m","a","i","n","/","s","h","a","d","c","n","/","x","'",";">>,
       row |-> 0, column |-> 0, fields |-> <<<<"source", 4>>>>,
       children |-> <<
          [type |-> "import", named |-> FALSE, text |-> <<"i","m","p","o","r","t">>,
           row |-> 0, column |-> 0, fields |-> <<>>,
           children |-> <<>>],
          [type |-> "import_clause", named |-> TRUE, text |-> <<"f","o","o">>,
           row |-> 0, column |-> 7, fields |-> <<>>,
           children |-> <<
              [type |-> "identifier", named |-> TRUE, text |-> <<"f","o","o">>,
               row |-> 0, column |-> 7, fields |-> <<>>,
               children |-> <<>>] >>],
          [type |-> "from", named |-> FALSE, text |-> <<"f","r","o","m">>,
           row |-> 0, column |-> 11, fields |-> <<>>,
           children |-> <<>>],
          [type |-> "string", named |-> TRUE, text |-> <<"'","@","/","d","o","m","a","i","n","/","s","h","a","d","c","n","/","x","'">>,
           row |-> 0, column |-> 16, fields |-> <<>>,
           children |-> <<
              [type |-> "'", named |-> FALSE, text |-> <<"'">>,
               row |-> 0, column |-> 16, fields |-> <<>>,
               children |-> <<>>],
              [type |-> "string_fragment", named |-> TRUE, text |-> <<"@","/","d","o","m","a","i","n","/","s","h","a","d","c","n","/","x">>,
               row |-> 0, column |-> 17, fields |-> <<>>,
               children |-> <<>>],
              [type |-> "'", named |-> FALSE, text |-> <<"'">>,
               row |-> 0, column |-> 34, fields |-> <<>>,
               children |-> <<>>] >>],
          [type |-> ";", named |-> FALSE, text |-> <<";">>,
           row |-> 0, column |-> 35, fields |-> <<>>,
           children |-> <<>>] >>],
      [type |-> "lexical_declaration", named |-> TRUE, text |-> <<"c","o","n","s","t"," ","b","a","r"," ","="," ","f","o","o",";">>,
       row |-> 1, column |-> 0, fields |-> <<<<"kind", 1>>>>,
       children |-> <<
          [type |-> "const", named |-> FALSE, text |-> <<"c","o","n","s","t">>,
           row |-> 1, column |-> 0, fields |-> <<>>,
           children |-> <<>>],
          [type |-> "variable_declarator", named |-> TRUE, text |-> <<"b","a","r"," ","="," ","f","o","o">>,
           row |-> 1, column |-> 6, fields |-> <<<<"name", 1>>, <<"value", 3>>>>,
           children |-> <<
              [type |-> "identifier", named |-> TRUE, text |-> <<"b","a","r">>,
               row |-> 1, column |-> 6, fields |-> <<>>,
               children |-> <<>>],
              [type |-> "=", named |-> FALSE, text |-> <<"=">>,
               row |-> 1, column |-> 10, fields |-> <<>>,
               children |-> <<>>],
              [type |-> "identifier", named |-> TRUE, text |-> <<"f","o","o">>,
               row |-> 1, column |-> 12, fields |-> <<>>,
               children |-> <<>>] >>],
          [type |-> ";", named |-> FALSE, text |-> <<";">>,
           row |-> 1, column |-> 15, fields |-> <<>>,
           children |-> <<>>] >>] >>]

SourceConstOnly ==
  <<"c","o","n","s","t"," ","x"," ","="," ","1",";">>

TreeConstOnly ==
  [type |-> "program", named |-> TRUE, text |-> <<"c","o","n","s","t"," ","x"," ","="," ","1",";">>,
   row |-> 0, column |-> 0, fields |-> <<>>,
   children |-> <<
      [type |-> "lexical_declaration", named |-> TRUE, text |-> <<"c","o","n","s","t"," ","x"," ","="," ","1",";">>,
       row |-> 0, column |-> 0, fields |-> <<<<"kind", 1>>>>,
       children |-> <<
          [type |-> "const", named |-> FALSE, text |-> <<"c","o","n","s","t">>,
           row |-> 0, column |-> 0, fields |-> <<>>,
           children |-> <<>>],
          [type |-> "variable_declarator", named |-> TRUE, text |-> <<"x"," ","="," ","1">>,
           row |-> 0, column |-> 6, fields |-> <<<<"name", 1>>, <<"value", 3>>>>,
           children |-> <<
              [type |-> "identifier", named |-> TRUE, text |-> <<"x">>,
               row |-> 0, column |-> 6, fields |-> <<>>,
               children |-> <<>>],
              [type |-> "=", named |-> FALSE, text |-> <<"=">>,
               row |-> 0, column |-> 8, fields |-> <<>>,
               children |-> <<>>],
              [type |-> "number", named |-> TRUE, text |-> <<"1">>,
               row |-> 0, column |-> 10, fields |-> <<>>,
               children |-> <<>>] >>],
          [type |-> ";", named |-> FALSE, text |-> <<";">>,
           row |-> 0, column |-> 11, fields |-> <<>>,
           children |-> <<>>] >>] >>]

SourceTestCall ==
  <<"t","e","s","t","(","'","i","t"," ","s","h","o","u","l","d"," ","w","o","r","k","'",","," ","v","i",".","f","n","(",")",")",";">>

TreeTestCall ==
  [type |-> "program", named |-> TRUE, text |-> <<"t","e","s","t","(","'","i","t"," ","s","h","o","u","l","d"," ","w","o","r","k","'",","," ","v","i",".","f","n","(",")",")",";">>,
   row |-> 0, column |-> 0, fields |-> <<>>,
   children |-> <<
      [type |-> "expression_statement", named |-> TRUE, text |-> <<"t","e","s","t","(","'","i","t"," ","s","h","o","u","l","d"," ","w","o","r","k","'",","," ","v","i",".","f","n","(",")",")",";">>,
       row |-> 0, column |-> 0, fields |-> <<>>,
       children |-> <<
          [type |-> "call_expression", named |-> TRUE, text |-> <<"t","e","s","t","(","'","i","t"," ","s","h","o","u","l","d"," ","w","o","r","k","'",","," ","v","i",".","f","n","(",")",")">>,
           row |-> 0, column |-> 0, fields |-> <<<<"function", 1>>, <<"arguments", 2>>>>,
           children |-> <<
              [type |-> "identifier", named |-> TRUE, text |-> <<"t","e","s","t">>,
               row |-> 0, column |-> 0, fields |-> <<>>,
               children |-> <<>>],
              [type |-> "arguments", named |-> TRUE, text |-> <<"(","'","i","t"," ","s","h","o","u","l","d"," ","w","o","r","k","'",","," ","v","i",".","f","n","(",")",")">>,
               row |-> 0, column |-> 4, fields |-> <<>>,
               children |-> <<
                  [type |-> "(", named |-> FALSE, text |-> <<"(">>,
                   row |-> 0, column |-> 4, fields |-> <<>>,
                   children |-> <<>>],
                  [type |-> "string", named |-> TRUE, text |-> <<"'","i","t"," ","s","h","o","u","l","d"," ","w","o","r","k","'">>,
                   row |-> 0, column |-> 5, fields |-> <<>>,
                   children |-> <<
                      [type |-> "'", named |-> FALSE, text |-> <<"'">>,
                       row |-> 0, column |-> 5, fields |-> <<>>,
                       children |-> <<>>],
                      [type |-> "string_fragment", named |-> TRUE, text |-> <<"i","t"," ","s","h","o","u","l","d"," ","w","o","r","k">>,
                       row |-> 0, column |-> 6, fields |-> <<>>,
                       children |-> <<>>],
                      [type |-> "'", named |-> FALSE, text |-> <<"'">>,
                       row |-> 0, column |-> 20, fields |-> <<>>,
                       children |-> <<>>] >>],
                  [type |-> ",", named |-> FALSE, text |-> <<",">>,
                   row |-> 0, column |-> 21, fields |-> <<>>,
                   children |-> <<>>],
                  [type |-> "call_expression", named |-> TRUE, text |-> <<"v","i",".","f","n","(",")">>,
                   row |-> 0, column |-> 23, fields |-> <<<<"function", 1>>, <<"arguments", 2>>>>,
                   children |-> <<
                      [type |-> "member_expression", named |-> TRUE, text |-> <<"v","i",".","f","n">>,
                       row |-> 0, column |-> 23, fields |-> <<<<"object", 1>>, <<"property", 3>>>>,
                       children |-> <<
                          [type |-> "identifier", named |-> TRUE, text |-> <<"v","i">>,
                           row |-> 0, column |-> 23, fields |-> <<>>,
                           children |-> <<>>],
                          [type |-> ".", named |-> FALSE, text |-> <<".">>,
                           row |-> 0, column |-> 25, fields |-> <<>>,
                           children |-> <<>>],
                          [type |-> "property_identifier", named |-> TRUE, text |-> <<"f","n">>,
                           row |-> 0, column |-> 26, fields |-> <<>>,
                           children |-> <<>>] >>],
                      [type |-> "arguments", named |-> TRUE, text |-> <<"(",")">>,
                       row |-> 0, column |-> 28, fields |-> <<>>,
                       children |-> <<
                          [type |-> "(", named |-> FALSE, text |-> <<"(">>,
                           row |-> 0, column |-> 28, fields |-> <<>>,
                           children |-> <<>>],
                          [type |-> ")", named |-> FALSE, text |-> <<")">>,
                           row |-> 0, column |-> 29, fields |-> <<>>,
                           children |-> <<>>] >>] >>],
                  [type |-> ")", named |-> FALSE, text |-> <<")">>,
                   row |-> 0, column |-> 30, fields |-> <<>>,
                   children |-> <<>>] >>] >>],
          [type |-> ";", named |-> FALSE, text |-> <<";">>,
           row |-> 0, column |-> 31, fields |-> <<>>,
           children |-> <<>>] >>] >>]

SourceFunction ==
  <<"f","u","n","c","t","i","o","n"," ","f","(","i","d",":"," ","s","t","r","i","n","g",")"," ","{","}">>

TreeFunction ==
  [type |-> "program", named |-> TRUE, text |-> <<"f","u","n","c","t","i","o","n"," ","f","(","i","d",":"," ","s","t","r","i","n","g",")"," ","{","}">>,
   row |-> 0, column |-> 0, fields |-> <<>>,
   children |-> <<
      [type |-> "function_declaration", named |-> TRUE, text |-> <<"f","u","n","c","t","i","o","n"," ","f","(","i","d",":"," ","s","t","r","i","n","g",")"," ","{","}">>,
       row |-> 0, column |-> 0, fields |-> <<<<"name", 2>>, <<"parameters", 3>>, <<"body", 4>>>>,
       children |-> <<
          [type |-> "function", named |-> FALSE, text |-> <<"f","u","n","c","t","i","o","n">>,
           row |-> 0, column |-> 0, fields |-> <<>>,
           children |-> <<>>],
          [type |-> "identifier", named |-> TRUE, text |-> <<"f">>,
           row |-> 0, column |-> 9, fields |-> <<>>,
           children |-> <<>>],
          [type |-> "formal_parameters", named |-> TRUE, text |-> <<"(","i","d",":"," ","s","t","r","i","n","g",")">>,
           row |-> 0, column |-> 10, fields |-> <<>>,
           children |-> <<
              [type |-> "(", named |-> FALSE, text |-> <<"(">>,
               row |-> 0, column |-> 10, fields |-> <<>>,
               children |-> <<>>],
              [type |-> "required_parameter", named |-> TRUE, text |-> <<"i","d",":"," ","s","t","r","i","n","g">>,
               row |-> 0, column |-> 11, fields |-> <<<<"pattern", 1>>, <<"type", 2>>>>,
               children |-> <<
                  [type |-> "identifier", named |-> TRUE, text |-> <<"i","d">>,
                   row |-> 0, column |-> 11, fields |-> <<>>,
                   children |-> <<>>],
                  [type |-> "type_annotation", named |-> TRUE, text |-> <<":"," ","s","t","r","i","n","g">>,
                   row |-> 0, column |-> 13, fields |-> <<>>,
                   children |-> <<
                      [type |-> ":", named |-> FALSE, text |-> <<":">>,
                       row |-> 0, column |-> 13, fields |-> <<>>,
                       children |-> <<>>],
                      [type |-> "predefined_type", named |-> TRUE, text |-> <<"s","t","r","i","n","g">>,
                       row |-> 0, column |-> 15, fields |-> <<>>,
                       children |-> <<
                          [type |-> "string", named |-> FALSE, text |-> <<"s","t","r","i","n","g">>,
                           row |-> 0, column |-> 15, fields |-> <<>>,
                           children |-> <<>>] >>] >>] >>],
              [type |-> ")", named |-> FALSE, text |-> <<")">>,
               row |-> 0, column |-> 21, fields |-> <<>>,
               children |-> <<>>] >>],
          [type |-> "statement_block", named |-> TRUE, text |-> <<"{","}">>,
           row |-> 0, column |-> 23, fields |-> <<>>,
           children |-> <<
              [type |-> "{", named |-> FALSE, text |-> <<"{">>,
               row |-> 0, column |-> 23, fields |-> <<>>,
               children |-> <<>>],
              [type |-> "}", named |-> FALSE, text |-> <<"}">>,
               row |-> 0, column |-> 24, fields |-> <<>>,
               children |-> <<>>] >>] >>] >>]


\* Calls of forbidden functions, at the top and inside a callback and an
\* argument, among calls with similar names and calls through computed access.
SourceCalls ==
  <<"v","i",".","s","t","u","b","G","l","o","b","a","l","(","a",")",";","\n","s","t","u","b","G","l","o","b","a","l","(","a",")",";","\n","v","i",".","s","p","y","O","n","P","r","o","p","e","r","t","y","(","a",")",";","\n","v","i","[","m","]","(","a",")",";","\n","o","[","'","s","t","u","b","E","n","v","'","]","(","a",")",";","\n","(","g","(",")",")","(","a",")",";","\n","v","i",".","s","p","y","O","n",";","\n","f","(","(",")"," ","=",">"," ","{"," ","v","i",".","s","p","y","O","n","(","a",")",";"," ","v","i",".","m","o","c","k","e","d","(","v","i",".","m","o","c","k","(","a",")",")",";"," ","}",")",";">>

TreeCalls ==
  [type |-> "program", named |-> TRUE, text |-> <<"v","i",".","s","t","u","b","G","l","o","b","a","l","(","a",")",";","\n","s","t","u","b","G","l","o","b","a","l","(","a",")",";","\n","v","i",".","s","p","y","O","n","P","r","o","p","e","r","t","y","(","a",")",";","\n","v","i","[","m","]","(","a",")",";","\n","o","[","'","s","t","u","b","E","n","v","'","]","(","a",")",";","\n","(","g","(",")",")","(","a",")",";","\n","v","i",".","s","p","y","O","n",";","\n","f","(","(",")"," ","=",">"," ","{"," ","v","i",".","s","p","y","O","n","(","a",")",";"," ","v","i",".","m","o","c","k","e","d","(","v","i",".","m","o","c","k","(","a",")",")",";"," ","}",")",";">>,
   row |-> 0, column |-> 0, fields |-> <<>>,
   children |-> <<
      [type |-> "expression_statement", named |-> TRUE, text |-> <<"v","i",".","s","t","u","b","G","l","o","b","a","l","(","a",")",";">>,
       row |-> 0, column |-> 0, fields |-> <<>>,
       children |-> <<
          [type |-> "call_expression", named |-> TRUE, text |-> <<"v","i",".","s","t","u","b","G","l","o","b","a","l","(","a",")">>,
           row |-> 0, column |-> 0, fields |-> <<<<"function", 1>>, <<"arguments", 2>>>>,
           children |-> <<
              [type |-> "member_expression", named |-> TRUE, text |-> <<"v","i",".","s","t","u","b","G","l","o","b","a","l">>,
               row |-> 0, column |-> 0, fields |-> <<<<"object", 1>>, <<"property", 3>>>>,
               children |-> <<
                  [type |-> "identifier", named |-> TRUE, text |-> <<"v","i">>,
                   row |-> 0, column |-> 0, fields |-> <<>>,
                   children |-> <<>>],
                  [type |-> ".", named |-> FALSE, text |-> <<".">>,
                   row |-> 0, column |-> 2, fields |-> <<>>,
                   children |-> <<>>],
                  [type |-> "property_identifier", named |-> TRUE, text |-> <<"s","t","u","b","G","l","o","b","a","l">>,
                   row |-> 0, column |-> 3, fields |-> <<>>,
                   children |-> <<>>] >>],
              [type |-> "arguments", named |-> TRUE, text |-> <<"(","a",")">>,
               row |-> 0, column |-> 13, fields |-> <<>>,
               children |-> <<
                  [type |-> "(", named |-> FALSE, text |-> <<"(">>,
                   row |-> 0, column |-> 13, fields |-> <<>>,
                   children |-> <<>>],
                  [type |-> "identifier", named |-> TRUE, text |-> <<"a">>,
                   row |-> 0, column |-> 14, fields |-> <<>>,
                   children |-> <<>>],
                  [type |-> ")", named |-> FALSE, text |-> <<")">>,
                   row |-> 0, column |-> 15, fields |-> <<>>,
                   children |-> <<>>] >>] >>],
          [type |-> ";", named |-> FALSE, text |-> <<";">>,
           row |-> 0, column |-> 16, fields |-> <<>>,
           children |-> <<>>] >>],
      [type |-> "expression_statement", named |-> TRUE, text |-> <<"s","t","u","b","G","l","o","b","a","l","(","a",")",";">>,
       row |-> 1, column |-> 0, fields |-> <<>>,
       children |-> <<
          [type |-> "call_expression", named |-> TRUE, text |-> <<"s","t","u","b","G","l","o","b","a","l","(","a",")">>,
           row |-> 1, column |-> 0, fields |-> <<<<"function", 1>>, <<"arguments", 2>>>>,
           children |-> <<
              [type |-> "identifier", named |-> TRUE, text |-> <<"s","t","u","b","G","l","o","b","a","l">>,
               row |-> 1, column |-> 0, fields |-> <<>>,
               children |-> <<>>],
              [type |-> "arguments", named |-> TRUE, text |-> <<"(","a",")">>,
               row |-> 1, column |-> 10, fields |-> <<>>,
               children |-> <<
                  [type |-> "(", named |-> FALSE, text |-> <<"(">>,
                   row |-> 1, column |-> 10, fields |-> <<>>,
                   children |-> <<>>],
                  [type |-> "identifier", named |-> TRUE, text |-> <<"a">>,
                   row |-> 1, column |-> 11, fields |-> <<>>,
                   children |-> <<>>],
                  [type |-> ")", named |-> FALSE, text |-> <<")">>,
                   row |-> 1, column |-> 12, fields |-> <<>>,
                   children |-> <<>>] >>] >>],
          [type |-> ";", named |-> FALSE, text |-> <<";">>,
           row |-> 1, column |-> 13, fields |-> <<>>,
           children |-> <<>>] >>],
      [type |-> "expression_statement", named |-> TRUE, text |-> <<"v","i",".","s","p","y","O","n","P","r","o","p","e","r","t","y","(","a",")",";">>,
       row |-> 2, column |-> 0, fields |-> <<>>,
       children |-> <<
          [type |-> "call_expression", named |-> TRUE, text |-> <<"v","i",".","s","p","y","O","n","P","r","o","p","e","r","t","y","(","a",")">>,
           row |-> 2, column |-> 0, fields |-> <<<<"function", 1>>, <<"arguments", 2>>>>,
           children |-> <<
              [type |-> "member_expression", named |-> TRUE, text |-> <<"v","i",".","s","p","y","O","n","P","r","o","p","e","r","t","y">>,
               row |-> 2, column |-> 0, fields |-> <<<<"object", 1>>, <<"property", 3>>>>,
               children |-> <<
                  [type |-> "identifier", named |-> TRUE, text |-> <<"v","i">>,
                   row |-> 2, column |-> 0, fields |-> <<>>,
                   children |-> <<>>],
                  [type |-> ".", named |-> FALSE, text |-> <<".">>,
                   row |-> 2, column |-> 2, fields |-> <<>>,
                   children |-> <<>>],
                  [type |-> "property_identifier", named |-> TRUE, text |-> <<"s","p","y","O","n","P","r","o","p","e","r","t","y">>,
                   row |-> 2, column |-> 3, fields |-> <<>>,
                   children |-> <<>>] >>],
              [type |-> "arguments", named |-> TRUE, text |-> <<"(","a",")">>,
               row |-> 2, column |-> 16, fields |-> <<>>,
               children |-> <<
                  [type |-> "(", named |-> FALSE, text |-> <<"(">>,
                   row |-> 2, column |-> 16, fields |-> <<>>,
                   children |-> <<>>],
                  [type |-> "identifier", named |-> TRUE, text |-> <<"a">>,
                   row |-> 2, column |-> 17, fields |-> <<>>,
                   children |-> <<>>],
                  [type |-> ")", named |-> FALSE, text |-> <<")">>,
                   row |-> 2, column |-> 18, fields |-> <<>>,
                   children |-> <<>>] >>] >>],
          [type |-> ";", named |-> FALSE, text |-> <<";">>,
           row |-> 2, column |-> 19, fields |-> <<>>,
           children |-> <<>>] >>],
      [type |-> "expression_statement", named |-> TRUE, text |-> <<"v","i","[","m","]","(","a",")",";">>,
       row |-> 3, column |-> 0, fields |-> <<>>,
       children |-> <<
          [type |-> "call_expression", named |-> TRUE, text |-> <<"v","i","[","m","]","(","a",")">>,
           row |-> 3, column |-> 0, fields |-> <<<<"function", 1>>, <<"arguments", 2>>>>,
           children |-> <<
              [type |-> "subscript_expression", named |-> TRUE, text |-> <<"v","i","[","m","]">>,
               row |-> 3, column |-> 0, fields |-> <<<<"object", 1>>, <<"index", 3>>>>,
               children |-> <<
                  [type |-> "identifier", named |-> TRUE, text |-> <<"v","i">>,
                   row |-> 3, column |-> 0, fields |-> <<>>,
                   children |-> <<>>],
                  [type |-> "[", named |-> FALSE, text |-> <<"[">>,
                   row |-> 3, column |-> 2, fields |-> <<>>,
                   children |-> <<>>],
                  [type |-> "identifier", named |-> TRUE, text |-> <<"m">>,
                   row |-> 3, column |-> 3, fields |-> <<>>,
                   children |-> <<>>],
                  [type |-> "]", named |-> FALSE, text |-> <<"]">>,
                   row |-> 3, column |-> 4, fields |-> <<>>,
                   children |-> <<>>] >>],
              [type |-> "arguments", named |-> TRUE, text |-> <<"(","a",")">>,
               row |-> 3, column |-> 5, fields |-> <<>>,
               children |-> <<
                  [type |-> "(", named |-> FALSE, text |-> <<"(">>,
                   row |-> 3, column |-> 5, fields |-> <<>>,
                   children |-> <<>>],
                  [type |-> "identifier", named |-> TRUE, text |-> <<"a">>,
                   row |-> 3, column |-> 6, fields |-> <<>>,
                   children |-> <<>>],
                  [type |-> ")", named |-> FALSE, text |-> <<")">>,
                   row |-> 3, column |-> 7, fields |-> <<>>,
                   children |-> <<>>] >>] >>],
          [type |-> ";", named |-> FALSE, text |-> <<";">>,
           row |-> 3, column |-> 8, fields |-> <<>>,
           children |-> <<>>] >>],
      [type |-> "expression_statement", named |-> TRUE, text |-> <<"o","[","'","s","t","u","b","E","n","v","'","]","(","a",")",";">>,
       row |-> 4, column |-> 0, fields |-> <<>>,
       children |-> <<
          [type |-> "call_expression", named |-> TRUE, text |-> <<"o","[","'","s","t","u","b","E","n","v","'","]","(","a",")">>,
           row |-> 4, column |-> 0, fields |-> <<<<"function", 1>>, <<"arguments", 2>>>>,
           children |-> <<
              [type |-> "subscript_expression", named |-> TRUE, text |-> <<"o","[","'","s","t","u","b","E","n","v","'","]">>,
               row |-> 4, column |-> 0, fields |-> <<<<"object", 1>>, <<"index", 3>>>>,
               children |-> <<
                  [type |-> "identifier", named |-> TRUE, text |-> <<"o">>,
                   row |-> 4, column |-> 0, fields |-> <<>>,
                   children |-> <<>>],
                  [type |-> "[", named |-> FALSE, text |-> <<"[">>,
                   row |-> 4, column |-> 1, fields |-> <<>>,
                   children |-> <<>>],
                  [type |-> "string", named |-> TRUE, text |-> <<"'","s","t","u","b","E","n","v","'">>,
                   row |-> 4, column |-> 2, fields |-> <<>>,
                   children |-> <<
                      [type |-> "'", named |-> FALSE, text |-> <<"'">>,
                       row |-> 4, column |-> 2, fields |-> <<>>,
                       children |-> <<>>],
                      [type |-> "string_fragment", named |-> TRUE, text |-> <<"s","t","u","b","E","n","v">>,
                       row |-> 4, column |-> 3, fields |-> <<>>,
                       children |-> <<>>],
                      [type |-> "'", named |-> FALSE, text |-> <<"'">>,
                       row |-> 4, column |-> 10, fields |-> <<>>,
                       children |-> <<>>] >>],
                  [type |-> "]", named |-> FALSE, text |-> <<"]">>,
                   row |-> 4, column |-> 11, fields |-> <<>>,
                   children |-> <<>>] >>],
              [type |-> "arguments", named |-> TRUE, text |-> <<"(","a",")">>,
               row |-> 4, column |-> 12, fields |-> <<>>,
               children |-> <<
                  [type |-> "(", named |-> FALSE, text |-> <<"(">>,
                   row |-> 4, column |-> 12, fields |-> <<>>,
                   children |-> <<>>],
                  [type |-> "identifier", named |-> TRUE, text |-> <<"a">>,
                   row |-> 4, column |-> 13, fields |-> <<>>,
                   children |-> <<>>],
                  [type |-> ")", named |-> FALSE, text |-> <<")">>,
                   row |-> 4, column |-> 14, fields |-> <<>>,
                   children |-> <<>>] >>] >>],
          [type |-> ";", named |-> FALSE, text |-> <<";">>,
           row |-> 4, column |-> 15, fields |-> <<>>,
           children |-> <<>>] >>],
      [type |-> "expression_statement", named |-> TRUE, text |-> <<"(","g","(",")",")","(","a",")",";">>,
       row |-> 5, column |-> 0, fields |-> <<>>,
       children |-> <<
          [type |-> "call_expression", named |-> TRUE, text |-> <<"(","g","(",")",")","(","a",")">>,
           row |-> 5, column |-> 0, fields |-> <<<<"function", 1>>, <<"arguments", 2>>>>,
           children |-> <<
              [type |-> "parenthesized_expression", named |-> TRUE, text |-> <<"(","g","(",")",")">>,
               row |-> 5, column |-> 0, fields |-> <<>>,
               children |-> <<
                  [type |-> "(", named |-> FALSE, text |-> <<"(">>,
                   row |-> 5, column |-> 0, fields |-> <<>>,
                   children |-> <<>>],
                  [type |-> "call_expression", named |-> TRUE, text |-> <<"g","(",")">>,
                   row |-> 5, column |-> 1, fields |-> <<<<"function", 1>>, <<"arguments", 2>>>>,
                   children |-> <<
                      [type |-> "identifier", named |-> TRUE, text |-> <<"g">>,
                       row |-> 5, column |-> 1, fields |-> <<>>,
                       children |-> <<>>],
                      [type |-> "arguments", named |-> TRUE, text |-> <<"(",")">>,
                       row |-> 5, column |-> 2, fields |-> <<>>,
                       children |-> <<
                          [type |-> "(", named |-> FALSE, text |-> <<"(">>,
                           row |-> 5, column |-> 2, fields |-> <<>>,
                           children |-> <<>>],
                          [type |-> ")", named |-> FALSE, text |-> <<")">>,
                           row |-> 5, column |-> 3, fields |-> <<>>,
                           children |-> <<>>] >>] >>],
                  [type |-> ")", named |-> FALSE, text |-> <<")">>,
                   row |-> 5, column |-> 4, fields |-> <<>>,
                   children |-> <<>>] >>],
              [type |-> "arguments", named |-> TRUE, text |-> <<"(","a",")">>,
               row |-> 5, column |-> 5, fields |-> <<>>,
               children |-> <<
                  [type |-> "(", named |-> FALSE, text |-> <<"(">>,
                   row |-> 5, column |-> 5, fields |-> <<>>,
                   children |-> <<>>],
                  [type |-> "identifier", named |-> TRUE, text |-> <<"a">>,
                   row |-> 5, column |-> 6, fields |-> <<>>,
                   children |-> <<>>],
                  [type |-> ")", named |-> FALSE, text |-> <<")">>,
                   row |-> 5, column |-> 7, fields |-> <<>>,
                   children |-> <<>>] >>] >>],
          [type |-> ";", named |-> FALSE, text |-> <<";">>,
           row |-> 5, column |-> 8, fields |-> <<>>,
           children |-> <<>>] >>],
      [type |-> "expression_statement", named |-> TRUE, text |-> <<"v","i",".","s","p","y","O","n",";">>,
       row |-> 6, column |-> 0, fields |-> <<>>,
       children |-> <<
          [type |-> "member_expression", named |-> TRUE, text |-> <<"v","i",".","s","p","y","O","n">>,
           row |-> 6, column |-> 0, fields |-> <<<<"object", 1>>, <<"property", 3>>>>,
           children |-> <<
              [type |-> "identifier", named |-> TRUE, text |-> <<"v","i">>,
               row |-> 6, column |-> 0, fields |-> <<>>,
               children |-> <<>>],
              [type |-> ".", named |-> FALSE, text |-> <<".">>,
               row |-> 6, column |-> 2, fields |-> <<>>,
               children |-> <<>>],
              [type |-> "property_identifier", named |-> TRUE, text |-> <<"s","p","y","O","n">>,
               row |-> 6, column |-> 3, fields |-> <<>>,
               children |-> <<>>] >>],
          [type |-> ";", named |-> FALSE, text |-> <<";">>,
           row |-> 6, column |-> 8, fields |-> <<>>,
           children |-> <<>>] >>],
      [type |-> "expression_statement", named |-> TRUE, text |-> <<"f","(","(",")"," ","=",">"," ","{"," ","v","i",".","s","p","y","O","n","(","a",")",";"," ","v","i",".","m","o","c","k","e","d","(","v","i",".","m","o","c","k","(","a",")",")",";"," ","}",")",";">>,
       row |-> 7, column |-> 0, fields |-> <<>>,
       children |-> <<
          [type |-> "call_expression", named |-> TRUE, text |-> <<"f","(","(",")"," ","=",">"," ","{"," ","v","i",".","s","p","y","O","n","(","a",")",";"," ","v","i",".","m","o","c","k","e","d","(","v","i",".","m","o","c","k","(","a",")",")",";"," ","}",")">>,
           row |-> 7, column |-> 0, fields |-> <<<<"function", 1>>, <<"arguments", 2>>>>,
           children |-> <<
              [type |-> "identifier", named |-> TRUE, text |-> <<"f">>,
               row |-> 7, column |-> 0, fields |-> <<>>,
               children |-> <<>>],
              [type |-> "arguments", named |-> TRUE, text |-> <<"(","(",")"," ","=",">"," ","{"," ","v","i",".","s","p","y","O","n","(","a",")",";"," ","v","i",".","m","o","c","k","e","d","(","v","i",".","m","o","c","k","(","a",")",")",";"," ","}",")">>,
               row |-> 7, column |-> 1, fields |-> <<>>,
               children |-> <<
                  [type |-> "(", named |-> FALSE, text |-> <<"(">>,
                   row |-> 7, column |-> 1, fields |-> <<>>,
                   children |-> <<>>],
                  [type |-> "arrow_function", named |-> TRUE, text |-> <<"(",")"," ","=",">"," ","{"," ","v","i",".","s","p","y","O","n","(","a",")",";"," ","v","i",".","m","o","c","k","e","d","(","v","i",".","m","o","c","k","(","a",")",")",";"," ","}">>,
                   row |-> 7, column |-> 2, fields |-> <<<<"parameters", 1>>, <<"body", 3>>>>,
                   children |-> <<
                      [type |-> "formal_parameters", named |-> TRUE, text |-> <<"(",")">>,
                       row |-> 7, column |-> 2, fields |-> <<>>,
                       children |-> <<
                          [type |-> "(", named |-> FALSE, text |-> <<"(">>,
                           row |-> 7, column |-> 2, fields |-> <<>>,
                           children |-> <<>>],
                          [type |-> ")", named |-> FALSE, text |-> <<")">>,
                           row |-> 7, column |-> 3, fields |-> <<>>,
                           children |-> <<>>] >>],
                      [type |-> "=>", named |-> FALSE, text |-> <<"=",">">>,
                       row |-> 7, column |-> 5, fields |-> <<>>,
                       children |-> <<>>],
                      [type |-> "statement_block", named |-> TRUE, text |-> <<"{"," ","v","i",".","s","p","y","O","n","(","a",")",";"," ","v","i",".","m","o","c","k","e","d","(","v","i",".","m","o","c","k","(","a",")",")",";"," ","}">>,
                       row |-> 7, column |-> 8, fields |-> <<>>,
                       children |-> <<
                          [type |-> "{", named |-> FALSE, text |-> <<"{">>,
                           row |-> 7, column |-> 8, fields |-> <<>>,
                           children |-> <<>>],
                          [type |-> "expression_statement", named |-> TRUE, text |-> <<"v","i",".","s","p","y","O","n","(","a",")",";">>,
                           row |-> 7, column |-> 10, fields |-> <<>>,
                           children |-> <<
                              [type |-> "call_expression", named |-> TRUE, text |-> <<"v","i",".","s","p","y","O","n","(","a",")">>,
                               row |-> 7, column |-> 10, fields |-> <<<<"function", 1>>, <<"arguments", 2>>>>,
                               children |-> <<
                                  [type |-> "member_expression", named |-> TRUE, text |-> <<"v","i",".","s","p","y","O","n">>,
                                   row |-> 7, column |-> 10, fields |-> <<<<"object", 1>>, <<"property", 3>>>>,
                                   children |-> <<
                                      [type |-> "identifier", named |-> TRUE, text |-> <<"v","i">>,
                                       row |-> 7, column |-> 10, fields |-> <<>>,
                                       children |-> <<>>],
                                      [type |-> ".", named |-> FALSE, text |-> <<".">>,
                                       row |-> 7, column |-> 12, fields |-> <<>>,
                                       children |-> <<>>],
                                      [type |-> "property_identifier", named |-> TRUE, text |-> <<"s","p","y","O","n">>,
                                       row |-> 7, column |-> 13, fields |-> <<>>,
                                       children |-> <<>>] >>],
                                  [type |-> "arguments", named |-> TRUE, text |-> <<"(","a",")">>,
                                   row |-> 7, column |-> 18, fields |-> <<>>,
                                   children |-> <<
                                      [type |-> "(", named |-> FALSE, text |-> <<"(">>,
                                       row |-> 7, column |-> 18, fields |-> <<>>,
                                       children |-> <<>>],
                                      [type |-> "identifier", named |-> TRUE, text |-> <<"a">>,
                                       row |-> 7, column |-> 19, fields |-> <<>>,
                                       children |-> <<>>],
                                      [type |-> ")", named |-> FALSE, text |-> <<")">>,
                                       row |-> 7, column |-> 20, fields |-> <<>>,
                                       children |-> <<>>] >>] >>],
                              [type |-> ";", named |-> FALSE, text |-> <<";">>,
                               row |-> 7, column |-> 21, fields |-> <<>>,
                               children |-> <<>>] >>],
                          [type |-> "expression_statement", named |-> TRUE, text |-> <<"v","i",".","m","o","c","k","e","d","(","v","i",".","m","o","c","k","(","a",")",")",";">>,
                           row |-> 7, column |-> 23, fields |-> <<>>,
                           children |-> <<
                              [type |-> "call_expression", named |-> TRUE, text |-> <<"v","i",".","m","o","c","k","e","d","(","v","i",".","m","o","c","k","(","a",")",")">>,
                               row |-> 7, column |-> 23, fields |-> <<<<"function", 1>>, <<"arguments", 2>>>>,
                               children |-> <<
                                  [type |-> "member_expression", named |-> TRUE, text |-> <<"v","i",".","m","o","c","k","e","d">>,
                                   row |-> 7, column |-> 23, fields |-> <<<<"object", 1>>, <<"property", 3>>>>,
                                   children |-> <<
                                      [type |-> "identifier", named |-> TRUE, text |-> <<"v","i">>,
                                       row |-> 7, column |-> 23, fields |-> <<>>,
                                       children |-> <<>>],
                                      [type |-> ".", named |-> FALSE, text |-> <<".">>,
                                       row |-> 7, column |-> 25, fields |-> <<>>,
                                       children |-> <<>>],
                                      [type |-> "property_identifier", named |-> TRUE, text |-> <<"m","o","c","k","e","d">>,
                                       row |-> 7, column |-> 26, fields |-> <<>>,
                                       children |-> <<>>] >>],
                                  [type |-> "arguments", named |-> TRUE, text |-> <<"(","v","i",".","m","o","c","k","(","a",")",")">>,
                                   row |-> 7, column |-> 32, fields |-> <<>>,
                                   children |-> <<
                                      [type |-> "(", named |-> FALSE, text |-> <<"(">>,
                                       row |-> 7, column |-> 32, fields |-> <<>>,
                                       children |-> <<>>],
                                      [type |-> "call_expression", named |-> TRUE, text |-> <<"v","i",".","m","o","c","k","(","a",")">>,
                                       row |-> 7, column |-> 33, fields |-> <<<<"function", 1>>, <<"arguments", 2>>>>,
                                       children |-> <<
                                          [type |-> "member_expression", named |-> TRUE, text |-> <<"v","i",".","m","o","c","k">>,
                                           row |-> 7, column |-> 33, fields |-> <<<<"object", 1>>, <<"property", 3>>>>,
                                           children |-> <<
                                              [type |-> "identifier", named |-> TRUE, text |-> <<"v","i">>,
                                               row |-> 7, column |-> 33, fields |-> <<>>,
                                               children |-> <<>>],
                                              [type |-> ".", named |-> FALSE, text |-> <<".">>,
                                               row |-> 7, column |-> 35, fields |-> <<>>,
                                               children |-> <<>>],
                                              [type |-> "property_identifier", named |-> TRUE, text |-> <<"m","o","c","k">>,
                                               row |-> 7, column |-> 36, fields |-> <<>>,
                                               children |-> <<>>] >>],
                                          [type |-> "arguments", named |-> TRUE, text |-> <<"(","a",")">>,
                                           row |-> 7, column |-> 40, fields |-> <<>>,
                                           children |-> <<
                                              [type |-> "(", named |-> FALSE, text |-> <<"(">>,
                                               row |-> 7, column |-> 40, fields |-> <<>>,
                                               children |-> <<>>],
                                              [type |-> "identifier", named |-> TRUE, text |-> <<"a">>,
                                               row |-> 7, column |-> 41, fields |-> <<>>,
                                               children |-> <<>>],
                                              [type |-> ")", named |-> FALSE, text |-> <<")">>,
                                               row |-> 7, column |-> 42, fields |-> <<>>,
                                               children |-> <<>>] >>] >>],
                                      [type |-> ")", named |-> FALSE, text |-> <<")">>,
                                       row |-> 7, column |-> 43, fields |-> <<>>,
                                       children |-> <<>>] >>] >>],
                              [type |-> ";", named |-> FALSE, text |-> <<";">>,
                               row |-> 7, column |-> 44, fields |-> <<>>,
                               children |-> <<>>] >>],
                          [type |-> "}", named |-> FALSE, text |-> <<"}">>,
                           row |-> 7, column |-> 46, fields |-> <<>>,
                           children |-> <<>>] >>] >>],
                  [type |-> ")", named |-> FALSE, text |-> <<")">>,
                   row |-> 7, column |-> 47, fields |-> <<>>,
                   children |-> <<>>] >>] >>],
          [type |-> ";", named |-> FALSE, text |-> <<";">>,
           row |-> 7, column |-> 48, fields |-> <<>>,
           children |-> <<>>] >>] >>]

SourceTwoImports ==
  <<"i","m","p","o","r","t"," ","f","o","o"," ","f","r","o","m"," ","'","@","/","d","o","m","a","i","n","/","s","h","a","d","c","n","/","x","'",";","\n","i","m","p","o","r","t"," ","b","a","r"," ","f","r","o","m"," ","'","@","/","d","o","m","a","i","n","/","t","a","s","k","/","y","'",";">>

TreeTwoImports ==
  [type |-> "program", named |-> TRUE, text |-> <<"i","m","p","o","r","t"," ","f","o","o"," ","f","r","o","m"," ","'","@","/","d","o","m","a","i","n","/","s","h","a","d","c","n","/","x","'",";","\n","i","m","p","o","r","t"," ","b","a","r"," ","f","r","o","m"," ","'","@","/","d","o","m","a","i","n","/","t","a","s","k","/","y","'",";">>,
   row |-> 0, column |-> 0, fields |-> <<>>,
   children |-> <<
      [type |-> "import_statement", named |-> TRUE, text |-> <<"i","m","p","o","r","t"," ","f","o","o"," ","f","r","o","m"," ","'","@","/","d","o","m","a","i","n","/","s","h","a","d","c","n","/","x","'",";">>,
       row |-> 0, column |-> 0, fields |-> <<<<"source", 4>>>>,
       children |-> <<
          [type |-> "import", named |-> FALSE, text |-> <<"i","m","p","o","r","t">>,
           row |-> 0, column |-> 0, fields |-> <<>>,
           children |-> <<>>],
          [type |-> "import_clause", named |-> TRUE, text |-> <<"f","o","o">>,
           row |-> 0, column |-> 7, fields |-> <<>>,
           children |-> <<
              [type |-> "identifier", named |-> TRUE, text |-> <<"f","o","o">>,
               row |-> 0, column |-> 7, fields |-> <<>>,
               children |-> <<>>] >>],
          [type |-> "from", named |-> FALSE, text |-> <<"f","r","o","m">>,
           row |-> 0, column |-> 11, fields |-> <<>>,
           children |-> <<>>],
          [type |-> "string", named |-> TRUE, text |-> <<"'","@","/","d","o","m","a","i","n","/","s","h","a","d","c","n","/","x","'">>,
           row |-> 0, column |-> 16, fields |-> <<>>,
           children |-> <<
              [type |-> "'", named |-> FALSE, text |-> <<"'">>,
               row |-> 0, column |-> 16, fields |-> <<>>,
               children |-> <<>>],
              [type |-> "string_fragment", named |-> TRUE, text |-> <<"@","/","d","o","m","a","i","n","/","s","h","a","d","c","n","/","x">>,
               row |-> 0, column |-> 17, fields |-> <<>>,
               children |-> <<>>],
              [type |-> "'", named |-> FALSE, text |-> <<"'">>,
               row |-> 0, column |-> 34, fields |-> <<>>,
               children |-> <<>>] >>],
          [type |-> ";", named |-> FALSE, text |-> <<";">>,
           row |-> 0, column |-> 35, fields |-> <<>>,
           children |-> <<>>] >>],
      [type |-> "import_statement", named |-> TRUE, text |-> <<"i","m","p","o","r","t"," ","b","a","r"," ","f","r","o","m"," ","'","@","/","d","o","m","a","i","n","/","t","a","s","k","/","y","'",";">>,
       row |-> 1, column |-> 0, fields |-> <<<<"source", 4>>>>,
       children |-> <<
          [type |-> "import", named |-> FALSE, text |-> <<"i","m","p","o","r","t">>,
           row |-> 1, column |-> 0, fields |-> <<>>,
           children |-> <<>>],
          [type |-> "import_clause", named |-> TRUE, text |-> <<"b","a","r">>,
           row |-> 1, column |-> 7, fields |-> <<>>,
           children |-> <<
              [type |-> "identifier", named |-> TRUE, text |-> <<"b","a","r">>,
               row |-> 1, column |-> 7, fields |-> <<>>,
               children |-> <<>>] >>],
          [type |-> "from", named |-> FALSE, text |-> <<"f","r","o","m">>,
           row |-> 1, column |-> 11, fields |-> <<>>,
           children |-> <<>>],
          [type |-> "string", named |-> TRUE, text |-> <<"'","@","/","d","o","m","a","i","n","/","t","a","s","k","/","y","'">>,
           row |-> 1, column |-> 16, fields |-> <<>>,
           children |-> <<
              [type |-> "'", named |-> FALSE, text |-> <<"'">>,
               row |-> 1, column |-> 16, fields |-> <<>>,
               children |-> <<>>],
              [type |-> "string_fragment", named |-> TRUE, text |-> <<"@","/","d","o","m","a","i","n","/","t","a","s","k","/","y">>,
               row |-> 1, column |-> 17, fields |-> <<>>,
               children |-> <<>>],
              [type |-> "'", named |-> FALSE, text |-> <<"'">>,
               row |-> 1, column |-> 32, fields |-> <<>>,
               children |-> <<>>] >>],
          [type |-> ";", named |-> FALSE, text |-> <<";">>,
           row |-> 1, column |-> 33, fields |-> <<>>,
           children |-> <<>>] >>] >>]

\* this.parser.parse(sourceCode) on a parser that has its language
parse(sourceCode) ==
  CASE sourceCode = SourceImportThenConst -> TreeImportThenConst
    [] sourceCode = SourceConstOnly -> TreeConstOnly
    [] sourceCode = SourceTestCall -> TreeTestCall
    [] sourceCode = SourceFunction -> TreeFunction
    [] sourceCode = SourceCalls -> TreeCalls
    [] sourceCode = SourceTwoImports -> TreeTwoImports

-----------------------------------------------------------------------------
(* Linter.lint: the traversal                                              *)

\* An errors array that lives across lint calls.
keepErrors(previousErrors) == previousErrors

\* const errors: LintError[] = []
newErrors(previousErrors) == <<>>

\* for (const rule of this.rules) { const error = rule.check(node, filePath);
\*   if (error) errors.push(error) }
\* acc.calls records each check invocation as <<path of the node, rule index>>.
RECURSIVE runRules(_, _, _, _, _, _)
runRules(ruleList, k, node, path, filePath, acc) ==
  IF acc.thrown \/ k > Len(ruleList) THEN acc
  ELSE LET r      == ruleCheck(ruleList[k], node, filePath)
           called == [acc EXCEPT !.calls = Append(@, <<path, k>>)]
       IN IF r.kind = "throw" THEN [called EXCEPT !.thrown = TRUE]
          ELSE IF r.kind = "error"
            THEN runRules(ruleList, k + 1, node, path, filePath,
                          [called EXCEPT !.errors = Append(@, r.error)])
          ELSE runRules(ruleList, k + 1, node, path, filePath, called)

RECURSIVE traverseChildrenFirst(_, _, _, _, _)
RECURSIVE childrenFirstFrom(_, _, _, _, _, _)
\* A traversal that visits the children before applying the rules to the node.
traverseChildrenFirst(ruleList, node, path, filePath, acc) ==
  runRules(ruleList, 1, node, path, filePath,
           childrenFirstFrom(ruleList, node, 1, path, filePath, acc))
childrenFirstFrom(ruleList, node, i, path, filePath, acc) ==
  IF acc.thrown \/ i > Len(node.children) THEN acc
  ELSE childrenFirstFrom(ruleList, node, i + 1, path, filePath,
         traverseChildrenFirst(ruleList, node.children[i], Append(path, i), filePath, acc))

RECURSIVE traverse(_, _, _, _, _)
RECURSIVE traverseChildren(_, _, _, _, _, _)
\* const traverse = (node) => { rules loop; for (const child of node.children) traverse(child) }
\* path is the node's address: the child indices from the root.
traverse(ruleList, node, path, filePath, acc) ==
  traverseChildren(ruleList, node, 1, path, filePath,
                   runRules(ruleList, 1, node, path, filePath, acc))
\* A loop over the children that passes over the anonymous ones.
RECURSIVE traverseNamedChildren(_, _, _, _, _, _)
traverseNamedChildren(ruleList, node, i, path, filePath, acc) ==
  IF acc.thrown \/ i > Len(node.children) THEN acc
  ELSE traverseNamedChildren(ruleList, node, i + 1, path, filePath,
         IF node.children[i].named
           THEN traverse(ruleList, node.children[i], Append(path, i), filePath, acc)
         ELSE acc)

\* for (const child of node.children) traverse(child), from child i on
traverseChildren(ruleList, node, i, path, filePath, acc) ==
  IF acc.thrown \/ i > Len(node.children) THEN acc
  ELSE traverseChildren(ruleList, node, i + 1, path, filePath,
         traverse(ruleList, node.children[i], Append(path, i), filePath, acc))

-----------------------------------------------------------------------------
(* The Linter object                                                       *)

NoParser == 0

\* A linter that is born with a rule.
presetRules == <<rule1>>

\* private rules: Rule[] = []
initialRules == <<>>

\* What a lint call gave its caller, with the call's arguments, the rule list
\* and the init calls' positions at the time of the call, and a summary of the
\* lint call before it.
NoPrevious == [kind |-> "none", file |-> <<>>, source |-> <<>>, count |-> 0]

NoResult ==
  [kind |-> "none", errors |-> <<>>, calls |-> <<>>, file |-> <<>>, source |-> <<>>,
   rules |-> <<>>, pc |-> <<>>, after |-> NoPrevious]

\* An init that never returns early.
neverAlreadyInitialized(flag) == FALSE

\* if (this.initialized) return;
alreadyInitialized(flag) == flag

\* A lint without its guard.
neverNotInitialized(p) == FALSE

\* if (!this.parser) throw new Error('Linter not initialized. Call init() first.')
notInitialized(p) == p = NoParser

\* An addRule that skips a rule it already holds.
pushRuleOnce(ruleList, rule) ==
  IF arrayIncludes(ruleList, rule) THEN ruleList ELSE Append(ruleList, rule)

\* this.rules.push(rule)
pushRule(ruleList, rule) == Append(ruleList, rule)

\* What lint(filePath, sourceCode) gives its caller in the current state:
\*   notInitialized  the 'Linter not initialized' error is thrown
\*   parseError      the parser has no language: parse yields no tree and lint
\*                   throws another error
\*   ruleThrew       a rule's check threw, and lint with it
\*   returned        lint returned errors
lintOutcome(filePath, sourceCode) ==
  LET base == [NoResult EXCEPT
                 !.file = filePath, !.source = sourceCode, !.rules = rules, !.pc = pc,
                 !.after = [kind |-> result.kind, file |-> result.file,
                            source |-> result.source, count |-> Len(result.errors)]]
  IN IF notInitialized(parser) THEN [base EXCEPT !.kind = "notInitialized"]
     ELSE IF parser \notin withLanguage THEN [base EXCEPT !.kind = "parseError"]
     ELSE LET acc == traverse(rules, parse(sourceCode), <<>>, filePath,
                              [errors |-> newErrors(result.errors), calls |-> <<>>,
                               thrown |-> FALSE])
          IN [base EXCEPT !.kind = IF acc.thrown THEN "ruleThrew" ELSE "returned",
                          !.errors = IF acc.thrown THEN <<>> ELSE acc.errors,
                          !.calls = acc.calls]


-----------------------------------------------------------------------------
(* Bounds and inputs of the engine                                         *)

\* init calls that may be in flight or finished
MaxInitCalls == 2
\* rules registered while init calls interleave
MaxRulesDuringInit == 1
\* rules registered on the linter whose traversal is examined
MaxRules == 3

InitCalls == 1..MaxInitCalls

FileInStepDomain ==
  <<"s","r","c","/","d","o","m","a","i","n","/","s","t","e","p","/","a",".","t","s">>
FileTest == <<"t","e","s","t",".","t","s">>

EngineFiles == {FileInStepDomain, FileTest}
EngineSources == {SourceImportThenConst, SourceConstOnly}

\* The configuration of the rule's tests, cut down to three domains.
EngineDomainConfig ==
  [domainPath   |-> <<"s","r","c","/","d","o","m","a","i","n">>,
   importAlias  |-> <<"@","/","d","o","m","a","i","n">>,
   rootFiles    |-> << <<"c","a","c","h","e">> >>,
   dependencies |-> << [key |-> <<"s","t","e","p">>, value |-> <<>>],
                       [key |-> <<"t","a","s","k">>, value |-> << <<"s","t","e","p">> >>],
                       [key |-> <<"i","n","t","e","g","r","a","t","i","o","n">>,
                        value |-> << Star >>] >>]

EngineRules ==
  {createDomainDependenciesRule(EngineDomainConfig), noDirectShadcnImportsRule, rule1}

-----------------------------------------------------------------------------
(* Actions of the engine                                                   *)

\* new Linter()
EngineInit ==
  /\ rules = initialRules
  /\ parser = NoParser
  /\ initialized = FALSE
  /\ withLanguage = {}
  /\ created = 0
  /\ loads = 0
  /\ pc = [c \in InitCalls |-> "idle"]
  /\ madeBy = <<>>
  /\ registered = <<>>
  /\ result = NoResult

DomainIdle ==
  /\ dconfig = NoConfig
  /\ dnode = NullNode
  /\ dfile = <<>>
  /\ dout = ReturnsNull

NoPrimitiveConfig ==
  [enforcedPaths |-> <<>>, exemptPaths |-> <<>>, exemptParams |-> <<>>, primitives |-> <<>>]

PrimitiveIdle ==
  /\ pconfig = NoPrimitiveConfig
  /\ pnode = NullNode
  /\ pfile = <<>>
  /\ pout = ReturnsNull

\* No driver runs: the linter is used as a library.
DriverIdle ==
  /\ mainPc = "off"
  /\ files = <<>>
  /\ cursor = 0
  /\ totalErrors = 0
  /\ stderr = <<>>
  /\ exited = FALSE
  /\ exitCode = 0
  /\ linted = <<>>

\* init() is called: it returns at once when initialized, and otherwise runs up
\* to `await Parser.init()`. Calls are numbered in the order they start.
InitCall(c) ==
  /\ pc[c] = "idle"
  /\ IF c = 1 THEN TRUE ELSE pc[c - 1] # "idle"
  /\ pc' = [pc EXCEPT ![c] = IF alreadyInitialized(initialized) THEN "done"
                              ELSE "awaitParserInit"]
  /\ UNCHANGED <<rules, parser, initialized, withLanguage, created, loads, madeBy,
                 registered, result>>

\* Parser.init() resolved: this.parser = new Parser(), then up to
\* `await Language.load(grammarPath)`.
InitConstructParser(c) ==
  /\ pc[c] = "awaitParserInit"
  /\ created' = created + 1
  /\ parser' = created + 1
  /\ madeBy' = Append(madeBy, c)
  /\ loads' = loads + 1
  /\ pc' = [pc EXCEPT ![c] = "awaitLoad"]
  /\ UNCHANGED <<rules, initialized, withLanguage, registered, result>>

\* Language.load resolved: this.parser.setLanguage(language); this.initialized = true.
InitSetLanguage(c) ==
  /\ pc[c] = "awaitLoad"
  /\ withLanguage' = withLanguage \cup {parser}
  /\ initialized' = TRUE
  /\ pc' = [pc EXCEPT ![c] = "done"]
  /\ UNCHANGED <<rules, parser, created, loads, madeBy, registered, result>>

\* Parser.init() rejected: init rejects before a parser exists.
InitParserInitRejected(c) ==
  /\ pc[c] = "awaitParserInit"
  /\ pc' = [pc EXCEPT ![c] = "rejected"]
  /\ UNCHANGED <<rules, parser, initialized, withLanguage, created, loads, madeBy,
                 registered, result>>

\* Language.load rejected (the grammar file is missing or unreadable): init rejects.
InitLoadRejected(c) ==
  /\ pc[c] = "awaitLoad"
  /\ pc' = [pc EXCEPT ![c] = "rejected"]
  /\ UNCHANGED <<rules, parser, initialized, withLanguage, created, loads, madeBy,
                 registered, result>>

\* addRule(rule)
AddRule(rule, limit) ==
  /\ Len(rules) < limit
  /\ rules' = pushRule(rules, rule)
  /\ registered' = Append(registered, rule)
  /\ UNCHANGED <<parser, initialized, withLanguage, created, loads, pc, madeBy, result>>

\* lint(filePath, sourceCode)
Lint(filePath, sourceCode) ==
  /\ result' = lintOutcome(filePath, sourceCode)
  /\ UNCHANGED <<rules, parser, initialized, withLanguage, created, loads, pc, madeBy,
                 registered>>

\* init calls, addRule and lint in every interleaving
Init == EngineInit /\ DomainIdle /\ PrimitiveIdle /\ DriverIdle

Next ==
  \/ \E c \in InitCalls : InitCall(c) /\ UNCHANGED <<ruleVars, driverVars>>
  \/ \E c \in InitCalls : InitConstructParser(c) /\ UNCHANGED <<ruleVars, driverVars>>
  \/ \E c \in InitCalls : InitSetLanguage(c) /\ UNCHANGED <<ruleVars, driverVars>>
  \/ \E c \in InitCalls : InitParserInitRejected(c) /\ UNCHANGED <<ruleVars, driverVars>>
  \/ \E c \in InitCalls : InitLoadRejected(c) /\ UNCHANGED <<ruleVars, driverVars>>
  \/ AddRule(rule1, MaxRulesDuringInit) /\ UNCHANGED <<ruleVars, driverVars>>
  \/ Lint(FileTest, SourceImportThenConst) /\ UNCHANGED <<ruleVars, driverVars>>

Spec == Init /\ [][Next]_vars

\* One caller: a single init call awaited to its end, then addRule and lint.
NextLint ==
  \/ InitCall(1) /\ UNCHANGED <<ruleVars, driverVars>>
  \/ InitConstructParser(1) /\ UNCHANGED <<ruleVars, driverVars>>
  \/ InitSetLanguage(1) /\ UNCHANGED <<ruleVars, driverVars>>
  \/ \E r \in EngineRules : AddRule(r, MaxRules) /\ UNCHANGED <<ruleVars, driverVars>>
  \/ \E f \in EngineFiles, s \in EngineSources : Lint(f, s) /\ UNCHANGED <<ruleVars, driverVars>>

SpecLint == Init /\ [][NextLint]_vars

\* addRule calls on the linter whose registrations are examined
MaxRegistrations == 4

\* One caller: a single init call awaited to its end, addRule called up to
\* MaxRegistrations times with any rule in any order, and lint of a file of
\* the step domain with two imports: both reported by the domain rule, the
\* first also by the shadcn rule and, in its identifier, by rule-1.
NextAddRule ==
  \/ InitCall(1) /\ UNCHANGED <<ruleVars, driverVars>>
  \/ InitConstructParser(1) /\ UNCHANGED <<ruleVars, driverVars>>
  \/ InitSetLanguage(1) /\ UNCHANGED <<ruleVars, driverVars>>
  \/ \E r \in EngineRules : AddRule(r, MaxRegistrations) /\ UNCHANGED <<ruleVars, driverVars>>
  \/ Lint(FileInStepDomain, SourceTwoImports) /\ UNCHANGED <<ruleVars, driverVars>>

SpecAddRule == Init /\ [][NextAddRule]_vars

-----------------------------------------------------------------------------
(* Inputs of the domain-dependencies rule                                  *)

\* directories nested below a domain directory, in files and in imports
MaxNesting == 1

Task == <<"t","a","s","k">>
Step == <<"s","t","e","p">>
Hook == <<"h","o","o","k">>
Cache == <<"c","a","c","h","e">>
Constructor == <<"c","o","n","s","t","r","u","c","t","o","r">>

\* directory names under the domain path
SegmentNames == {Task, Step, Hook, Cache, Constructor}

\* k directories below the domain directory: "/state" k times
RECURSIVE nested(_)
nested(k) == IF k = 0 THEN <<>> ELSE <<"/","s","t","a","t","e">> \o nested(k - 1)

\* the path as Windows spells it
RECURSIVE toBackslashes(_)
toBackslashes(s) ==
  IF s = <<>> THEN <<>>
  ELSE <<(IF Head(s) = "/" THEN "\\" ELSE Head(s))>> \o toBackslashes(Tail(s))

FileNames == { <<"/","a",".","t","s">>,
               <<"/","a",".","t","e","s","t",".","t","s">>,
               <<"/","a",".","t","e","s","t",".","t","s","x">> }

TestFileNames == FileNames \ { <<"/","a",".","t","s">> }

\* the file <root>/<segment>/state/.../a.ts
fileIn(root, segment, depth, name, windows) ==
  LET p == root \o <<"/">> \o segment \o nested(depth) \o name
  IN IF windows THEN toBackslashes(p) ELSE p

FileOutsideDomains == <<"s","r","c","/","a","p","p","/","r","o","u","t","e",".","t","s">>

\* the file <root>/cache.ts, directly in the domain directory
fileAtRoot(root) == root \o <<"/","c","a","c","h","e",".","t","s">>

DomainFilesOf(config) ==
  { fileIn(config.domainPath, d, k, n, w) :
      d \in SegmentNames, k \in 0..MaxNesting, n \in FileNames, w \in BOOLEAN }
  \cup {FileOutsideDomains, fileAtRoot(config.domainPath)}

ImportTails == { <<>>, <<"/","t","y","p","e","s">> }

\* the import source <alias>/<segment>/state/.../types
importOf(alias, segment, depth, tail) ==
  alias \o <<"/">> \o segment \o nested(depth) \o tail

\* import sources that do not go through the domain alias, or not at their start
OtherImports ==
  { <<".","/","t","y","p","e","s">>,
    <<"@","/","l","i","b","/","r","e","s","u","l","t">>,
    <<"x","@","/","d","o","m","a","i","n","/","t","a","s","k","/","y">>,
    <<"@","s","c","o","p","e","/","@","/","d","o","m","a","i","n","/","t","a","s","k","/","y">> }

\* The tree of the statement  import '<source>';  at the start of a file.
importStatement(source) ==
  LET quoted == <<"'">> \o source \o <<"'">>
      leaf(type, named, text, column) ==
        [type |-> type, named |-> named, text |-> text, row |-> 0, column |-> column,
         fields |-> <<>>, children |-> <<>>]
  IN [type |-> "import_statement", named |-> TRUE,
      text |-> <<"i","m","p","o","r","t"," ">> \o quoted \o <<";">>,
      row |-> 0, column |-> 0, fields |-> << <<"source", 2>> >>,
      children |-> <<
        leaf("import", FALSE, <<"i","m","p","o","r","t">>, 0),
        [type |-> "string", named |-> TRUE, text |-> quoted, row |-> 0, column |-> 7,
         fields |-> <<>>,
         children |-> << leaf("'", FALSE, <<"'">>, 7),
                         leaf("string_fragment", TRUE, source, 8),
                         leaf("'", FALSE, <<"'">>, 8 + Len(source)) >>],
        leaf(";", FALSE, <<";">>, 9 + Len(source)) >>]

DomainNodesOf(config) ==
  { importStatement(importOf(config.importAlias, d, k, t)) :
      d \in SegmentNames, k \in 0..MaxNesting, t \in ImportTails }
  \cup { importStatement(src) : src \in OtherImports }
  \cup { importStatement(Task).children[2] }

PathsAndAliases ==
  { << <<"s","r","c","/","d","o","m","a","i","n">>, <<"@","/","d","o","m","a","i","n">> >>,
    << <<"s","r","c","/","m","o","d","u","l","e","s">>, <<"#","m","o","d","u","l","e","s">> >> }

DependencyMaps ==
  { <<>>,
    << [key |-> Task, value |-> <<Step>>] >>,
    << [key |-> Task, value |-> <<>>], [key |-> Step, value |-> <<Star>>] >>,
    << [key |-> Task, value |-> <<Step, Hook>>], [key |-> Hook, value |-> <<Task>>] >>,
    << [key |-> Task, value |-> <<Step>>], [key |-> Hook, value |-> <<Task>>],
       [key |-> Step, value |-> <<>>] >>,
    << [key |-> Constructor, value |-> <<Task>>], [key |-> Hook, value |-> <<Step, Star>>] >> }

DomainConfigs ==
  { [domainPath |-> pa[1], importAlias |-> pa[2], rootFiles |-> rf, dependencies |-> deps] :
      pa \in PathsAndAliases, rf \in { <<>>, <<Cache>> }, deps \in DependencyMaps }

Pending == [kind |-> "pending", error |-> NoError]

-----------------------------------------------------------------------------
(* The domain-dependencies rule applied to one node of one file            *)

\* createDomainDependenciesRule(config), and a node of a file about to be checked
DomainInit ==
  /\ EngineInit
  /\ PrimitiveIdle
  /\ DriverIdle
  /\ dconfig \in DomainConfigs
  /\ dfile \in DomainFilesOf(dconfig)
  /\ dnode \in DomainNodesOf(dconfig)
  /\ dout = Pending

\* rule.check(node, filePath)
DomainCheck ==
  /\ dout = Pending
  /\ dout' = domainCheck(dconfig, dnode, dfile)
  /\ UNCHANGED <<dconfig, dnode, dfile>>
  /\ UNCHANGED <<engineVars, primitiveVars, driverVars>>

NextDomain == DomainCheck

SpecDomain == DomainInit /\ [][NextDomain]_vars

-----------------------------------------------------------------------------
(* Inputs of the no-primitive-obsession rule                               *)

\* parameters of one function
MaxParams == 2

\* an anonymous token and a named leaf, on the first line of the file
token(type, text, column) ==
  [type |-> type, named |-> FALSE, text |-> text, row |-> 0, column |-> column,
   fields |-> <<>>, children |-> <<>>]
namedLeaf(type, text, column) ==
  [type |-> type, named |-> TRUE, text |-> text, row |-> 0, column |-> column,
   fields |-> <<>>, children |-> <<>>]

\* Parameters as written: name, "?" or not, and the annotated type (none:
\* <<>>), which is a predefined type (keyword) or a type identifier.
IdString ==
  [name |-> <<"i","d">>, optional |-> FALSE, type |-> <<"s","t","r","i","n","g">>,
   typeKind |-> "predefined_type", keyword |-> "string"]
NameOptionalNumber ==
  [name |-> <<"n","a","m","e">>, optional |-> TRUE, type |-> <<"n","u","m","b","e","r">>,
   typeKind |-> "predefined_type", keyword |-> "number"]
CountNumber ==
  [name |-> <<"c","o","u","n","t">>, optional |-> FALSE, type |-> <<"n","u","m","b","e","r">>,
   typeKind |-> "predefined_type", keyword |-> "number"]
DataBranded ==
  [name |-> <<"d","a","t","a">>, optional |-> FALSE, type |-> <<"T","a","s","k","D","a","t","a">>,
   typeKind |-> "type_identifier", keyword |-> ""]
Untyped ==
  [name |-> <<"x">>, optional |-> FALSE, type |-> <<>>,
   typeKind |-> "", keyword |-> ""]

ParameterKinds == {IdString, NameOptionalNumber, CountNumber, DataBranded, Untyped}

\* Parameters whose pattern is no plain name: a rest pattern and a
\* destructuring pattern, each annotated with a structured type and with a
\* predefined type.
RestArray ==
  [name |-> <<".",".",".","a","r","g","s">>, optional |-> FALSE, type |-> <<"s","t","r","i","n","g","[","]">>,
   typeKind |-> "array_type", keyword |-> "string"]
RestString ==
  [name |-> <<".",".",".","a","r","g","s">>, optional |-> FALSE, type |-> <<"s","t","r","i","n","g">>,
   typeKind |-> "predefined_type", keyword |-> "string"]
DestructuredObject ==
  [name |-> <<"{"," ","i","d"," ","}">>, optional |-> FALSE, type |-> <<"{"," ","i","d",":"," ","s","t","r","i","n","g"," ","}">>,
   typeKind |-> "object_type", keyword |-> "string"]
DestructuredString ==
  [name |-> <<"{"," ","l","e","n","g","t","h"," ","}">>, optional |-> FALSE, type |-> <<"s","t","r","i","n","g">>,
   typeKind |-> "predefined_type", keyword |-> "string"]

PatternKinds == {RestArray, RestString, DestructuredObject, DestructuredString}

\* a pattern parameter alone, after an exempt parameter, before a plain one
PatternLists ==
  { <<p>> : p \in PatternKinds }
  \cup { <<CountNumber, p>> : p \in PatternKinds }
  \cup { <<p, IdString>> : p \in PatternKinds }

ParameterLists ==
  UNION { [1..n -> ParameterKinds] : n \in 0..MaxParams }

parameterText(p) ==
  p.name \o (IF p.optional THEN <<"?">> ELSE <<>>)
         \o (IF p.type # <<>> THEN <<":", " ">> \o p.type ELSE <<>>)

\* string, number, ...: a predefined type holds its keyword
predefinedType(keyword, text, column) ==
  [type |-> "predefined_type", named |-> TRUE, text |-> text,
   row |-> 0, column |-> column, fields |-> <<>>,
   children |-> << token(keyword, text, column) >>]

\* name   ...name   { name }
patternNode(name, column) ==
  IF Head(name) = "."
    THEN [type |-> "rest_pattern", named |-> TRUE, text |-> name,
          row |-> 0, column |-> column, fields |-> <<>>,
          children |-> << token("...", <<".",".",".">>, column),
                          namedLeaf("identifier", SubSeq(name, 4, Len(name)), column + 3) >>]
  ELSE IF Head(name) = "{"
    THEN [type |-> "object_pattern", named |-> TRUE, text |-> name,
          row |-> 0, column |-> column, fields |-> <<>>,
          children |-> << token("{", <<"{">>, column),
                          namedLeaf("shorthand_property_identifier_pattern",
                                    SubSeq(name, 3, Len(name) - 2), column + 2),
                          token("}", <<"}">>, column + Len(name) - 1) >>]
  ELSE namedLeaf("identifier", name, column)

\* T[]   for a predefined type T
arrayType(keyword, text, column) ==
  [type |-> "array_type", named |-> TRUE, text |-> text,
   row |-> 0, column |-> column, fields |-> <<>>,
   children |-> << predefinedType(keyword, SubSeq(text, 1, Len(text) - 2), column),
                   token("[", <<"[">>, column + Len(text) - 2),
                   token("]", <<"]">>, column + Len(text) - 1) >>]

\* { id: T }   for a predefined type T
objectType(keyword, text, column) ==
  LET member == SubSeq(text, 3, Len(text) - 2)
      colon  == CHOOSE k \in 1..Len(member) : member[k] = ":"
      inner  == SubSeq(member, colon + 2, Len(member))
  IN [type |-> "object_type", named |-> TRUE, text |-> text,
      row |-> 0, column |-> column, fields |-> <<>>,
      children |-> << token("{", <<"{">>, column),
                      [type |-> "property_signature", named |-> TRUE, text |-> member,
                       row |-> 0, column |-> column + 2,
                       fields |-> << <<"name", 1>>, <<"type", 2>> >>,
                       children |-> << namedLeaf("property_identifier",
                                                 SubSeq(member, 1, colon - 1), column + 2),
                                       [type |-> "type_annotation", named |-> TRUE,
                                        text |-> SubSeq(member, colon, Len(member)),
                                        row |-> 0, column |-> column + 1 + colon,
                                        fields |-> <<>>,
                                        children |-> << token(":", <<":">>, column + 1 + colon),
                                                        predefinedType(keyword, inner, column + 3 + colon) >>] >>],
                      token("}", <<"}">>, column + Len(text) - 1) >>]

\* The node of the parameter p written at the given column.
parameterNode(p, column) ==
  LET q        == IF p.optional THEN 1 ELSE 0
      colon    == column + Len(p.name) + q
      typeNode == IF p.typeKind = "predefined_type"
                    THEN predefinedType(p.keyword, p.type, colon + 2)
                  ELSE IF p.typeKind = "array_type"
                    THEN arrayType(p.keyword, p.type, colon + 2)
                  ELSE IF p.typeKind = "object_type"
                    THEN objectType(p.keyword, p.type, colon + 2)
                  ELSE namedLeaf("type_identifier", p.type, colon + 2)
      annotation == [type |-> "type_annotation", named |-> TRUE,
                     text |-> <<":", " ">> \o p.type, row |-> 0, column |-> colon,
                     fields |-> <<>>,
                     children |-> << token(":", <<":">>, colon), typeNode >>]
  IN [type |-> IF p.optional THEN "optional_parameter" ELSE "required_parameter",
      named |-> TRUE, text |-> parameterText(p), row |-> 0, column |-> column,
      fields |-> << <<"pattern", 1>> >>
                 \o (IF p.type # <<>> THEN << <<"type", 2 + q>> >> ELSE <<>>),
      children |-> << patternNode(p.name, column) >>
                   \o (IF p.optional
                         THEN << token("?", <<"?">>, column + Len(p.name)) >> ELSE <<>>)
                   \o (IF p.type # <<>> THEN << annotation >> ELSE <<>>)]

RECURSIVE parametersText(_)
parametersText(params) ==
  IF Len(params) = 0 THEN <<>>
  ELSE IF Len(params) = 1 THEN parameterText(params[1])
  ELSE parameterText(params[1]) \o <<",", " ">> \o parametersText(Tail(params))

\* the parameters and the commas between them, from the given column on
RECURSIVE parameterNodes(_, _)
parameterNodes(params, column) ==
  IF Len(params) = 0 THEN <<>>
  ELSE LET after == column + Len(parameterText(params[1]))
       IN << parameterNode(params[1], column) >>
          \o (IF Len(params) > 1
                THEN << token(",", <<",">>, after) >> \o parameterNodes(Tail(params), after + 2)
              ELSE <<>>)

\* (p1, p2, ...)
formalParameters(params, column) ==
  LET inner == parametersText(params)
  IN [type |-> "formal_parameters", named |-> TRUE,
      text |-> <<"(">> \o inner \o <<")">>, row |-> 0, column |-> column,
      fields |-> <<>>,
      children |-> << token("(", <<"(">>, column) >>
                   \o parameterNodes(params, column + 1)
                   \o << token(")", <<")">>, column + 1 + Len(inner)) >>]

\* {}
statementBlock(column) ==
  [type |-> "statement_block", named |-> TRUE, text |-> <<"{", "}">>,
   row |-> 0, column |-> column, fields |-> <<>>,
   children |-> << token("{", <<"{">>, column), token("}", <<"}">>, column + 1) >>]

\* function f(p1, p2) {}
functionDeclaration(params) ==
  LET parameters == formalParameters(params, 10)
  IN [type |-> "function_declaration", named |-> TRUE,
      text |-> <<"f","u","n","c","t","i","o","n"," ","f">> \o parameters.text \o <<" ","{","}">>,
      row |-> 0, column |-> 0,
      fields |-> << <<"name", 2>>, <<"parameters", 3>>, <<"body", 4>> >>,
      children |-> << token("function", <<"f","u","n","c","t","i","o","n">>, 0),
                      namedLeaf("identifier", <<"f">>, 9),
                      parameters,
                      statementBlock(11 + Len(parameters.text)) >>]

\* (p1, p2) => {}   written at the given column
arrowFunction(params, column) ==
  LET parameters == formalParameters(params, column)
      arrow      == column + Len(parameters.text) + 1
  IN [type |-> "arrow_function", named |-> TRUE,
      text |-> parameters.text \o <<" ","=",">"," ","{","}">>,
      row |-> 0, column |-> column,
      fields |-> << <<"parameters", 1>>, <<"body", 3>> >>,
      children |-> << parameters, token("=>", <<"=", ">">>, arrow),
                      statementBlock(arrow + 3) >>]

\* find(p1, p2) {}   in a class body
methodDefinition(params) ==
  LET parameters == formalParameters(params, 4)
  IN [type |-> "method_definition", named |-> TRUE,
      text |-> <<"f","i","n","d">> \o parameters.text \o <<" ","{","}">>,
      row |-> 0, column |-> 0,
      fields |-> << <<"name", 1>>, <<"parameters", 2>>, <<"body", 3>> >>,
      children |-> << namedLeaf("property_identifier", <<"f","i","n","d">>, 0),
                      parameters,
                      statementBlock(5 + Len(parameters.text)) >>]

\* x => <body>   the parameter is a bare identifier, in the field 'parameter'
bareArrowFunction(body) ==
  [type |-> "arrow_function", named |-> TRUE,
   text |-> <<"x"," ","=",">"," ">> \o body.text, row |-> 0, column |-> 0,
   fields |-> << <<"parameter", 1>>, <<"body", 3>> >>,
   children |-> << namedLeaf("identifier", <<"x">>, 0),
                   token("=>", <<"=", ">">>, 2),
                   body >>]

\* x => x   and   x => (id: string) => {}
BareArrowFunctions ==
  { bareArrowFunction(namedLeaf("identifier", <<"x">>, 5)),
    bareArrowFunction(arrowFunction(<<IdString>>, 5)) }

FunctionNodes ==
  { functionDeclaration(ps) : ps \in ParameterLists \cup PatternLists }
  \cup { arrowFunction(ps, 0) : ps \in ParameterLists \cup PatternLists }
  \cup { methodDefinition(ps) : ps \in ParameterLists \cup PatternLists }
  \cup BareArrowFunctions

\* nodes that are no function: a parameter list and a parameter
OtherNodes ==
  { formalParameters(<<IdString>>, 0), parameterNode(IdString, 0) }

PrimitiveNodes == FunctionNodes \cup OtherNodes

FileRepository == <<"s","r","c","/","d","o","m","a","i","n","/","t","a","s","k","/","r","e","p","o","s","i","t","o","r","y",".","t","s">>
FileMapper == <<"s","r","c","/","d","o","m","a","i","n","/","t","a","s","k","/","m","a","p","p","e","r",".","t","s">>
FileInfrastructure == <<"s","r","c","/","d","o","m","a","i","n","/","i","n","f","r","a","s","t","r","u","c","t","u","r","e","/","a","d","a","p","t","e","r",".","t","s">>

PrimitiveFiles ==
  { FileRepository, FileMapper, FileInfrastructure,
    <<"s","r","c","/","d","o","m","a","i","n","/","t","a","s","k","/","d","a","t","a","m","a","p","p","e","r",".","t","s">>,
    <<"s","r","c","/","d","o","m","a","i","n","/","m","a","p","p","e","r",".","t","s","/","i","n","d","e","x",".","t","s">>,
    <<"s","r","c","/","d","b","/","q","u","e","r","i","e","s",".","t","s">>,
    <<"s","r","c","/","d","b","/","m","a","p","p","e","r",".","t","s">>,
    <<"s","r","c","/","d","o","m","a","i","n","/","t","a","s","k","/","r","e","p","o","s","i","t","o","r","y",".","t","e","s","t",".","t","s">>,
    <<"s","r","c","/","d","o","m","a","i","n","/","t","a","s","k","/","c","o","m","p","o","n","e","n","t",".","t","e","s","t",".","t","s","x">>,
    toBackslashes(FileRepository), toBackslashes(FileMapper),
    toBackslashes(FileInfrastructure) }

PrimitiveConfigs ==
  { [enforcedPaths |-> ep, exemptPaths |-> xp, exemptParams |-> xn, primitives |-> pr] :
      ep \in { <<>>, << <<"s","r","c","/","d","o","m","a","i","n">> >>, << <<"s","r","c","/","l","i","b">>, <<"s","r","c","/","d","o","m","a","i","n">> >> },
      xp \in { <<>>, << <<"*","*","/","m","a","p","p","e","r",".","t","s">> >>, << <<"*","*","/","s","c","h","e","m","a",".","t","s">>, <<"i","n","f","r","a","s","t","r","u","c","t","u","r","e">> >> },
      xn \in { <<>>, << <<"c","o","u","n","t">>, <<"i","n","d","e","x">> >> },
      pr \in { << <<"s","t","r","i","n","g">>, <<"n","u","m","b","e","r">>, <<"b","o","o","l","e","a","n">> >>, << <<"s","t","r","i","n","g">> >> } }

-----------------------------------------------------------------------------
(* The no-primitive-obsession rule applied to one node of one file         *)

\* createNoPrimitiveObsessionRule(config), and a node of a file about to be checked
PrimitiveInit ==
  /\ EngineInit
  /\ DomainIdle
  /\ DriverIdle
  /\ pconfig \in PrimitiveConfigs
  /\ pfile \in PrimitiveFiles
  /\ pnode \in PrimitiveNodes
  /\ pout = Pending

\* rule.check(node, filePath)
PrimitiveCheck ==
  /\ pout = Pending
  /\ pout' = primitiveCheck(pconfig, pnode, pfile)
  /\ UNCHANGED <<pconfig, pnode, pfile>>
  /\ UNCHANGED <<engineVars, domainVars, driverVars>>

NextPrimitive == PrimitiveCheck

SpecPrimitive == PrimitiveInit /\ [][NextPrimitive]_vars

\* Either configuration-driven rule applied to one node of one file.
RulesInit == DomainInit \/ PrimitiveInit

NextRules ==
  \/ DomainCheck
  \/ PrimitiveCheck

SpecRules == RulesInit /\ [][NextRules]_vars

-----------------------------------------------------------------------------
(* formatter: formatErrors(errors). A text is a sequence of pieces, each a *)
(* character or a rule's name; the text is their concatenation.            *)

Digits == <<"0","1","2","3","4","5","6","7","8","9">>

\* `${n}` for a non-negative integer
RECURSIVE decimal(_)
decimal(n) ==
  IF n < 10 THEN <<Digits[n + 1]>>
  ELSE decimal(n \div 10) \o <<Digits[(n % 10) + 1]>>

\* message.split('\n').map(line => `  ${line}`).join('\n'), after the first
\* line's indentation
RECURSIVE indentRest(_)
indentRest(message) ==
  IF message = <<>> THEN <<>>
  ELSE IF Len(message) = 1
    THEN (IF message[1] = "\n" THEN <<"\n", " ", " ">> ELSE message)
  ELSE LET half == Len(message) \div 2
       IN indentRest(SubSeq(message, 1, half))
            \o indentRest(SubSeq(message, half + 1, Len(message)))

indentLines(message) == <<" ", " ">> \o indentRest(message)

\* `${header}\n${message}` of one error
formatError(error) ==
  <<"\n">> \o error.file \o <<":">> \o decimal(error.line) \o <<":">>
    \o decimal(error.column) \o <<" ", "-", " ", error.ruleName>>
    \o <<"\n">> \o indentLines(error.message)

\* .join('\n\n')
RECURSIVE formatErrorsFrom(_, _)
formatErrorsFrom(errors, i) ==
  IF i = Len(errors) THEN formatError(errors[i])
  ELSE formatError(errors[i]) \o <<"\n", "\n">> \o formatErrorsFrom(errors, i + 1)

formatErrors(errors) ==
  IF Len(errors) = 0 THEN <<>> ELSE formatErrorsFrom(errors, 1)

-----------------------------------------------------------------------------
(* The driver: main() of the command-line entry point                      *)

\* entries a directory walk may list, in a run
MaxFiles == 2

\* What loadDomainConfig / loadPrimitiveConfig give main: null when the file
\* does not exist, the parsed configuration, or an exception (the file is not
\* JSON, or lacks enforcedPaths).
DomainConfigFiles ==
  { [kind |-> "null", config |-> NoConfig],
    [kind |-> "config", config |-> EngineDomainConfig],
    [kind |-> "throws", config |-> NoConfig] }

DriverPrimitiveConfig ==
  [enforcedPaths |-> << <<"s","r","c","/","d","o","m","a","i","n">> >>,
   exemptPaths   |-> << <<"*","*","/","m","a","p","p","e","r",".","t","s">> >>,
   exemptParams  |-> << <<"c","o","u","n","t">>, <<"i","n","d","e","x">> >>,
   primitives    |-> << <<"s","t","r","i","n","g">>, <<"n","u","m","b","e","r">>, <<"b","o","o","l","e","a","n">> >>]

PrimitiveConfigFiles ==
  { [kind |-> "null", config |-> NoPrimitiveConfig],
    [kind |-> "config", config |-> DriverPrimitiveConfig],
    [kind |-> "config", config |-> [DriverPrimitiveConfig EXCEPT !.enforcedPaths = <<>>]],
    [kind |-> "throws", config |-> NoPrimitiveConfig] }

\* The files under the target directory: path and content.
FileSystem ==
  { [path |-> <<"s","r","c","/","l","i","b","/","a",".","t","s">>, source |-> SourceConstOnly],
    [path |-> FileInStepDomain, source |-> SourceImportThenConst],
    [path |-> <<"s","r","c","/","d","o","m","a","i","n","/","c","o","n","s","t","r","u","c","t","o","r","/","a",".","t","s">>, source |-> SourceImportThenConst],
    [path |-> <<"s","r","c","/","d","o","m","a","i","n","/","t","a","s","k","/","r","e","p","o","s","i","t","o","r","y",".","t","s">>, source |-> SourceFunction],
    [path |-> <<"s","r","c","/","a","p","p","/","p","a","g","e",".","t","e","s","t",".","t","s","x">>, source |-> SourceTestCall],
    [path |-> <<"s","r","c","/","a","p","p","/","c","a","l","l","s",".","t","e","s","t",".","t","s">>, source |-> SourceCalls],
    [path |-> <<"s","r","c","/","l","i","b","/","n","o","t","e","s",".","m","d">>, source |-> SourceTestCall] }

Paths == { f.path : f \in FileSystem }

\* The listings a walk of the target directory may give: distinct paths, in
\* the order readdirSync gives them.
Listings ==
  { l \in UNION { [1..n -> Paths] : n \in 0..MaxFiles } :
      \A i, j \in 1..Len(l) : i # j => l[i] # l[j] }

\* readFileSync(file, 'utf-8')
readFileSync(file) == (CHOOSE f \in FileSystem : f.path = file).source

SuffixTs == <<".", "t", "s">>
SuffixTsx == <<".", "t", "s", "x">>

\* findTsFiles(dir) over the entries the walk meets
RECURSIVE findTsFiles(_)
findTsFiles(entries) ==
  IF entries = <<>> THEN <<>>
  ELSE IF endsWith(Head(entries), SuffixTs) \/ endsWith(Head(entries), SuffixTsx)
    THEN <<Head(entries)>> \o findTsFiles(Tail(entries))
  ELSE findTsFiles(Tail(entries))

\* The rules main registers whatever the configuration, in its order.
FixedRules ==
  <<noDirectShadcnImportsRule, noSpyOnRule, noViFnRule, noViMockRule,
    noViMockedRule, noViStubRule, noInteractionAssertionsRule,
    noMisleadingTestDoubleNamesRule, noTestNameWithMethodNamesRule,
    noTestNameWithShouldRule>>

\* if (domainConfig) ...; if (primitiveConfig && enforcedPaths.length > 0) ...
configuredRules(domainConfig, primitiveConfig) ==
  (IF domainConfig.kind = "config"
     THEN <<createDomainDependenciesRule(domainConfig.config)>> ELSE <<>>)
  \o (IF primitiveConfig.kind = "config" /\ Len(primitiveConfig.config.enforcedPaths) > 0
        THEN <<createNoPrimitiveObsessionRule(primitiveConfig.config)>> ELSE <<>>)

\* linter.addRule(...) for each rule of a list, in order
RECURSIVE addRules(_, _)
addRules(ruleList, toAdd) ==
  IF toAdd = <<>> THEN ruleList
  ELSE addRules(pushRule(ruleList, Head(toAdd)), Tail(toAdd))

\* An exit test that lets a single violation pass.
moreThanOneError(total) == total > 1

\* if (totalErrors > 0)
hasErrors(total) == total > 0

\* totalErrors += errors.length
addErrors(total, count) == total + count

\* `\nFound ${totalErrors} linting error${totalErrors === 1 ? '' : 's'}`
foundMessage(total) ==
  <<"\n">> \o <<"F","o","u","n","d"," ">> \o decimal(total) \o <<" ","l","i","n","t","i","n","g"," ","e","r","r","o","r">>
    \o (IF total = 1 THEN <<>> ELSE <<"s">>)

\* console.error('Linter failed:', err); the rendering of err is the runtime's
failedMessage == <<"L","i","n","t","e","r"," ","f","a","i","l","e","d",":">>

\* main() is about to be called
DriverInit ==
  /\ EngineInit
  /\ DomainIdle
  /\ PrimitiveIdle
  /\ mainPc = "start"
  /\ files = <<>>
  /\ cursor = 0
  /\ totalErrors = 0
  /\ stderr = <<>>
  /\ exited = FALSE
  /\ exitCode = 0
  /\ linted = <<>>

\* const linter = new Linter(); await linter.init();
MainStart ==
  /\ mainPc = "start"
  /\ InitCall(1)
  /\ mainPc' = "awaitInit"
  /\ UNCHANGED <<files, cursor, totalErrors, stderr, exited, exitCode, linted>>
  /\ UNCHANGED ruleVars

\* init() resolved: the configurations are loaded and the rules registered
MainRegisterRules(domainConfig, primitiveConfig) ==
  /\ mainPc = "awaitInit"
  /\ pc[1] = "done"
  /\ domainConfig.kind # "throws"
  /\ primitiveConfig.kind # "throws"
  /\ rules' = addRules(rules, configuredRules(domainConfig, primitiveConfig) \o FixedRules)
  /\ registered' = registered \o configuredRules(domainConfig, primitiveConfig) \o FixedRules
  /\ mainPc' = "findFiles"
  /\ UNCHANGED <<parser, initialized, withLanguage, created, loads, pc, madeBy, result>>
  /\ UNCHANGED <<files, cursor, totalErrors, stderr, exited, exitCode, linted>>
  /\ UNCHANGED ruleVars

\* init() resolved and a configuration file cannot be loaded: main rejects,
\* after registering the domain rule when it is the second file that fails
MainLoadConfigThrows(domainConfig, primitiveConfig) ==
  /\ mainPc = "awaitInit"
  /\ pc[1] = "done"
  /\ domainConfig.kind = "throws" \/ primitiveConfig.kind = "throws"
  /\ rules' = IF domainConfig.kind = "config"
                THEN pushRule(rules, createDomainDependenciesRule(domainConfig.config))
                ELSE rules
  /\ registered' = IF domainConfig.kind = "config"
                     THEN Append(registered, createDomainDependenciesRule(domainConfig.config))
                     ELSE registered
  /\ mainPc' = "rejected"
  /\ UNCHANGED <<parser, initialized, withLanguage, created, loads, pc, madeBy, result>>
  /\ UNCHANGED <<files, cursor, totalErrors, stderr, exited, exitCode, linted>>
  /\ UNCHANGED ruleVars

\* const files = findTsFiles(targetDir); let totalErrors = 0;
MainFindFiles(entries) ==
  /\ mainPc = "findFiles"
  /\ files' = findTsFiles(entries)
  /\ totalErrors' = 0
  /\ mainPc' = "loop"
  /\ UNCHANGED <<cursor, stderr, exited, exitCode, linted>>
  /\ UNCHANGED <<engineVars, ruleVars>>

\* readdirSync or statSync throws (the target directory does not exist)
MainFindFilesThrows ==
  /\ mainPc = "findFiles"
  /\ mainPc' = "rejected"
  /\ UNCHANGED <<files, cursor, totalErrors, stderr, exited, exitCode, linted>>
  /\ UNCHANGED <<engineVars, ruleVars>>

\* One iteration of `for (const file of files)`; a throwing lint rejects main.
MainLintFile ==
  /\ mainPc = "loop"
  /\ cursor < Len(files)
  /\ result' = lintOutcome(files[cursor + 1], readFileSync(files[cursor + 1]))
  /\ linted' = Append(linted, [file |-> result'.file, kind |-> result'.kind])
  /\ IF result'.kind = "returned"
       THEN /\ stderr' = IF Len(result'.errors) > 0
                           THEN Append(stderr, formatErrors(result'.errors))
                         ELSE stderr
            /\ totalErrors' = IF Len(result'.errors) > 0
                                THEN addErrors(totalErrors, Len(result'.errors))
                              ELSE totalErrors
            /\ cursor' = cursor + 1
            /\ mainPc' = mainPc
       ELSE /\ mainPc' = "rejected"
            /\ UNCHANGED <<stderr, totalErrors, cursor>>
  /\ UNCHANGED <<rules, parser, initialized, withLanguage, created, loads, pc, madeBy,
                 registered>>
  /\ UNCHANGED <<files, exited, exitCode>>
  /\ UNCHANGED ruleVars

\* readFileSync throws (the file went away after the walk)
MainReadFileThrows ==
  /\ mainPc = "loop"
  /\ cursor < Len(files)
  /\ mainPc' = "rejected"
  /\ UNCHANGED <<files, cursor, totalErrors, stderr, exited, exitCode, linted>>
  /\ UNCHANGED <<engineVars, ruleVars>>

\* After the loop: if (totalErrors > 0) { console.error(...); process.exit(1); }
\* and otherwise main returns and the process ends with status 0.
MainFinish ==
  /\ mainPc = "loop"
  /\ cursor = Len(files)
  /\ stderr' = IF hasErrors(totalErrors) THEN Append(stderr, foundMessage(totalErrors))
                ELSE stderr
  /\ exitCode' = IF hasErrors(totalErrors) THEN 1 ELSE 0
  /\ exited' = TRUE
  /\ mainPc' = "returned"
  /\ UNCHANGED <<files, cursor, totalErrors, linted>>
  /\ UNCHANGED <<engineVars, ruleVars>>

\* main().catch(err => { console.error('Linter failed:', err); process.exit(1); })
MainCatch ==
  /\ mainPc = "rejected" \/ (mainPc = "awaitInit" /\ pc[1] = "rejected")
  /\ stderr' = Append(stderr, failedMessage)
  /\ exitCode' = 1
  /\ exited' = TRUE
  /\ mainPc' = "caught"
  /\ UNCHANGED <<files, cursor, totalErrors, linted>>
  /\ UNCHANGED <<engineVars, ruleVars>>

NextDriver ==
  \/ MainStart
  \/ (mainPc = "awaitInit" /\ InitConstructParser(1) /\ UNCHANGED <<ruleVars, driverVars>>)
  \/ (mainPc = "awaitInit" /\ InitSetLanguage(1) /\ UNCHANGED <<ruleVars, driverVars>>)
  \/ (mainPc = "awaitInit" /\ InitParserInitRejected(1) /\ UNCHANGED <<ruleVars, driverVars>>)
  \/ (mainPc = "awaitInit" /\ InitLoadRejected(1) /\ UNCHANGED <<ruleVars, driverVars>>)
  \/ \E d \in DomainConfigFiles, p \in PrimitiveConfigFiles : MainRegisterRules(d, p)
  \/ \E d \in DomainConfigFiles, p \in PrimitiveConfigFiles : MainLoadConfigThrows(d, p)
  \/ \E entries \in Listings : MainFindFiles(entries)
  \/ MainFindFilesThrows
  \/ MainLintFile
  \/ MainReadFileThrows
  \/ MainFinish
  \/ MainCatch

SpecDriver == DriverInit /\ [][NextDriver]_vars

-----------------------------------------------------------------------------
(* Vocabulary of the properties                                            *)

\* The addresses of the nodes of the tree below (and including) node.
RECURSIVE pathsOf(_, _)
pathsOf(node, path) ==
  {path} \cup UNION { pathsOf(node.children[i], Append(path, i)) :
                        i \in 1..Len(node.children) }

\* The node at an address.
RECURSIVE nodeAt(_, _)
nodeAt(node, path) ==
  IF path = <<>> THEN node ELSE nodeAt(node.children[Head(path)], Tail(path))

\* p is a proper ancestor of q
isAncestor(p, q) == Len(p) < Len(q) /\ SubSeq(q, 1, Len(p)) = p

\* Pre-order: a node comes before its descendants, and an earlier sibling's
\* subtree before a later sibling's.
preOrderBefore(p, q) ==
  \/ isAncestor(p, q)
  \/ \E i \in 1..Len(p) :
       /\ i <= Len(q)
       /\ SubSeq(p, 1, i - 1) = SubSeq(q, 1, i - 1)
       /\ p[i] < q[i]

\* The (node, rule index) pairs at which a rule of the list reports a violation.
reportsOf(ruleList, tree, filePath) ==
  { <<p, k>> \in pathsOf(tree, <<>>) \X (1..Len(ruleList)) :
      ruleCheck(ruleList[k], nodeAt(tree, p), filePath).kind = "error" }

\* Earlier node first; at one node, earlier registration first.
reportBefore(a, b) ==
  \/ preOrderBefore(a[1], b[1])
  \/ a[1] = b[1] /\ a[2] < b[2]

\* The place of a report in that order.
rankOf(a, reports) == 1 + Cardinality({ b \in reports : reportBefore(b, a) })

\* How often x occurs in a sequence.
countIn(seq, x) == Cardinality({ i \in 1..Len(seq) : seq[i] = x })

\* The reports of the last lint call.
lastTree == parse(result.source)
lastReports == reportsOf(result.rules, lastTree, result.file)

-----------------------------------------------------------------------------
(* C1: whenever lint returns, its result is exactly the violations found   *)
(* by visiting the nodes in pre-order and, at each node, the rules in      *)
(* registration order: the i-th error is the one of the i-th report in     *)
(* that order.                                                             *)
C1_PreOrderThenRegistrationOrder ==
  result.kind = "returned" =>
    /\ Len(result.errors) = Cardinality(lastReports)
    /\ \A a \in lastReports :
         result.errors[rankOf(a, lastReports)] =
           ruleCheck(result.rules[a[2]], nodeAt(lastTree, a[1]), result.file).error

\* A returned result with two violations at one node, a violation at a node
\* and one at a descendant of it, and a violation of a later-registered rule
\* at an earlier node than one of an earlier-registered rule.
C1_Witness ==
  /\ result.kind = "returned"
  /\ \E a, b \in lastReports : a[1] = b[1] /\ a[2] < b[2]
  /\ \E a, b \in lastReports : isAncestor(a[1], b[1])
  /\ \E a, b \in lastReports : preOrderBefore(a[1], b[1]) /\ a[2] > b[2]

-----------------------------------------------------------------------------
(* C2: a lint call on a linter on which init was never called throws the   *)
(* not-initialized error, invokes no check, returns no errors and leaves   *)
(* the rule list as the addRule calls built it.                            *)
C2_LintWithoutInitThrows ==
  [][ (result' # result /\ pc[1] = "idle") =>
        /\ result'.kind = "notInitialized"
        /\ result'.calls = <<>>
        /\ result'.errors = <<>>
        /\ rules' = rules
        /\ rules' = registered' ]_vars

\* lint was called, after an addRule, on a linter whose init was never called.
C2_Witness ==
  /\ result.kind = "notInitialized"
  /\ pc[1] = "idle"
  /\ Len(rules) > 0
  /\ result.rules = rules

-----------------------------------------------------------------------------
(* C3: a lint call made before any init call has completed successfully    *)
(* signals the not-initialized error.                                      *)
C3_LintBeforeInitCompletesThrowsNotInitialized ==
  (result.kind # "none" /\ \A c \in InitCalls : result.pc[c] # "done")
    => result.kind = "notInitialized"

-----------------------------------------------------------------------------
(* C4: an init call on a linter whose earlier init completed successfully  *)
(* returns at once and changes nothing: not the parser, not the language   *)
(* of any parser, not the rule list, which are all that lint reads.        *)
C4_InitAfterInitIsNoOp ==
  [][ (initialized /\ \E c \in InitCalls : pc[c] = "idle" /\ pc'[c] # "idle") =>
        /\ \E c \in InitCalls : pc[c] = "idle" /\ pc'[c] = "done"
        /\ UNCHANGED <<parser, withLanguage, initialized, created, loads, madeBy,
                       rules, registered, result>> ]_vars

\* An init call returned at once on an initialized linter: it is done and
\* constructed no parser.
C4_Witness ==
  /\ initialized
  /\ \E c \in InitCalls :
       /\ pc[c] = "done"
       /\ \A p \in 1..Len(madeBy) : madeBy[p] # c

-----------------------------------------------------------------------------
(* C5: however the init calls interleave, one parser is constructed and    *)
(* the grammar is loaded once, and when no call is in flight the parser    *)
(* of the linter is the one the first call constructed.                    *)
C5_InitializationIsOneTime ==
  /\ created <= 1
  /\ loads <= 1
  /\ ( /\ parser # NoParser
       /\ \A c \in InitCalls : pc[c] \in {"idle", "done", "rejected"} )
     => madeBy[parser] = 1

-----------------------------------------------------------------------------
(* C6: on a linter to which no rule was added, lint returns the empty      *)
(* sequence.                                                               *)
C6_NoRulesNoErrors ==
  (result.kind = "returned" /\ registered = <<>>) => result.errors = <<>>

\* lint returned, with no rule added, for the source the rules find fault with.
C6_Witness ==
  /\ result.kind = "returned"
  /\ registered = <<>>
  /\ result.source = SourceImportThenConst
  /\ result.file = FileInStepDomain

-----------------------------------------------------------------------------
(* C7, as amended: the rule list is the sequence of the addRule arguments  *)
(* in call order. When lint returns, at every node a rule added k times    *)
(* was invoked k times, and the violations of that node stand together in  *)
(* the output, one for each registration that reports there, in            *)
(* registration order: a violation of a rule added k times appears k times *)
(* among them, and two copies of it stand with nothing but copies between  *)
(* them exactly when every registration between the two that reports at    *)
(* that node is of the same rule (so always when the two are adjacent, or  *)
(* when the rules registered between them report nothing at that node).    *)
C7_AddRuleAppendsWithoutDedup ==
  /\ rules = registered
  /\ result.kind = "returned" =>
       LET reports == lastReports
           n       == Len(result.rules)
       IN \A p \in pathsOf(lastTree, <<>>) :
            LET reporting  == { k \in 1..n : <<p, k>> \in reports }
                before     == Cardinality({ b \in reports : preOrderBefore(b[1], p) })
                atNode     == IF before + Cardinality(reporting) <= Len(result.errors)
                                THEN SubSeq(result.errors, before + 1,
                                            before + Cardinality(reporting))
                              ELSE <<>>
                placeOf(k) == Cardinality({ m \in reporting : m <= k })
            IN /\ \A k \in 1..n :
                    Cardinality({ i \in 1..Len(result.calls) :
                                    /\ result.calls[i][1] = p
                                    /\ result.rules[result.calls[i][2]] = result.rules[k] })
                      = countIn(result.rules, result.rules[k])
               /\ Len(atNode) = Cardinality(reporting)
               /\ \A k \in reporting :
                    LET e == ruleCheck(result.rules[k], nodeAt(lastTree, p),
                                       result.file).error
                    IN /\ countIn(atNode, e) = countIn(result.rules, result.rules[k])
                       /\ atNode[placeOf(k)] = e
                       /\ \A k2 \in reporting :
                            (k < k2 /\ result.rules[k2] = result.rules[k]) =>
                              ( (\A i \in placeOf(k)..placeOf(k2) : atNode[i] = e)
                                <=> (\A m \in (k + 1)..(k2 - 1) :
                                       m \in reporting => result.rules[m] = result.rules[k]) )

\* C7 as stated: the k copies of a violation of a rule added k times are
\* consecutive in the output.
C7_CopiesAreConsecutive ==
  result.kind = "returned" =>
    \A a \in lastReports :
      LET e      == ruleCheck(result.rules[a[2]], nodeAt(lastTree, a[1]), result.file).error
          places == { i \in 1..Len(result.errors) : result.errors[i] = e }
      IN \A i, j \in places : \A m \in i..j : m \in places

\* lint returned, and of the registrations of one rule that report at one
\* node: two are adjacent; two have a registration of another rule between
\* them that reports at that node too; and two have between them only
\* registrations of other rules, none of which reports at that node.
C7_Witness ==
  /\ result.kind = "returned"
  /\ LET reports == lastReports
         n       == Len(result.rules)
         copies  == { t \in pathsOf(lastTree, <<>>) \X (1..n) \X (1..n) :
                        /\ t[2] < t[3]
                        /\ result.rules[t[2]] = result.rules[t[3]]
                        /\ <<t[1], t[2]>> \in reports
                        /\ <<t[1], t[3]>> \in reports }
     IN /\ \E t \in copies : t[3] = t[2] + 1
        /\ \E t \in copies : \E m \in (t[2] + 1)..(t[3] - 1) :
             result.rules[m] # result.rules[t[2]] /\ <<t[1], m>> \in reports
        /\ \E t \in copies :
             /\ t[3] > t[2] + 1
             /\ \A m \in (t[2] + 1)..(t[3] - 1) :
                  result.rules[m] # result.rules[t[2]] /\ <<t[1], m>> \notin reports

-----------------------------------------------------------------------------
(* C8: a lint call on an initialized linter changes nothing of the engine  *)
(* (rule list, parser, its language, initialized flag); what it returns    *)
(* holds only violations of its own file and is what a traversal starting  *)
(* from no errors gives, whatever lint calls came before.                  *)
C8_LintLeavesEngineUnchanged ==
  [][ (initialized /\ result' # result) =>
        /\ UNCHANGED <<rules, registered, parser, withLanguage, initialized>>
        /\ result'.kind = "returned" =>
             /\ \A i \in 1..Len(result'.errors) : result'.errors[i].file = result'.file
             /\ result'.errors =
                  traverse(rules, parse(result'.source), <<>>, result'.file,
                           [errors |-> <<>>, calls |-> <<>>, thrown |-> FALSE]).errors ]_vars

\* lint returned violations for one file right after it had returned
\* violations for another file.
C8_Witness ==
  /\ result.kind = "returned"
  /\ Len(result.errors) > 0
  /\ result.after.kind = "returned"
  /\ result.after.count > 0
  /\ result.after.file # result.file

-----------------------------------------------------------------------------
(* Vocabulary of the properties of the domain-dependencies rule            *)

\* The file under check is <domainPath>/<from>/.../<name>, in either spelling.
fileIsIn(from, names) ==
  \E k \in 0..MaxNesting, n \in names, w \in BOOLEAN :
    dfile = fileIn(dconfig.domainPath, from, k, n, w)

\* The node under check is an import of <alias>/<to>/...
importIsOf(to) ==
  /\ dnode.type = "import_statement"
  /\ LET source == stripQuotes(childForFieldName(dnode, "source").text)
     IN \E k \in 0..MaxNesting, t \in ImportTails :
          source = importOf(dconfig.importAlias, to, k, t)

\* The check has run on an import of <alias>/<to>/... in the file
\* <domainPath>/<from>/.../<name>, in either spelling of the path.
checkedImport(from, to, names) ==
  /\ dout # Pending
  /\ importIsOf(to)
  /\ fileIsIn(from, names)

quote(name) == <<"'">> \o name \o <<"'">>

-----------------------------------------------------------------------------
(* C9: an import of the importing file's own domain is never reported,     *)
(* whatever the configuration says (or does not say) about that domain.    *)
C9_SelfImportAllowed ==
  \A d \in SegmentNames : checkedImport(d, d, FileNames) => dout = ReturnsNull

\* The check returned null for a self-import from a file that is no test
\* file, in a domain that is absent from the mapping and is no root file.
C9_Witness ==
  \E d \in SegmentNames :
    /\ checkedImport(d, d, FileNames \ TestFileNames)
    /\ ~hasOwn(dconfig.dependencies, d)
    /\ ~arrayIncludes(dconfig.rootFiles, d)
    /\ dout = ReturnsNull

-----------------------------------------------------------------------------
(* C10: fail-closed: in a file that is no test file and whose domain has   *)
(* no entry in the mapping, an import of another domain that is no root    *)
(* file is reported, at the import statement, naming both domains.         *)
C10_FailClosed ==
  \A d, e \in SegmentNames :
    ( /\ checkedImport(d, e, FileNames \ TestFileNames)
      /\ d # e
      /\ ~hasOwn(dconfig.dependencies, d)
      /\ ~arrayIncludes(dconfig.rootFiles, e) )
    => /\ dout.kind = "error"
       /\ dout.error.line = dnode.row + 1
       /\ dout.error.column = dnode.column + 1
       /\ includes(dout.error.message, quote(d))
       /\ includes(dout.error.message, quote(e))

-----------------------------------------------------------------------------
(* C11: when the allowed list of the importing file's domain contains '*'  *)
(* (alone or with other names), an import of any domain is not reported.   *)
C11_WildcardAllowsAnyDomain ==
  \A d, e \in SegmentNames :
    ( /\ hasOwn(dconfig.dependencies, d)
      /\ arrayIncludes(ownValue(dconfig.dependencies, d), Star)
      /\ checkedImport(d, e, FileNames) )
    => dout = ReturnsNull

\* The check returned null for an import of another domain, no root file and
\* not named in the list, from a file that is no test file, in a domain whose
\* list holds '*' together with another name.
C11_Witness ==
  \E d, e \in SegmentNames :
    /\ checkedImport(d, e, FileNames \ TestFileNames)
    /\ d # e
    /\ hasOwn(dconfig.dependencies, d)
    /\ arrayIncludes(ownValue(dconfig.dependencies, d), Star)
    /\ Len(ownValue(dconfig.dependencies, d)) > 1
    /\ ~arrayIncludes(ownValue(dconfig.dependencies, d), e)
    /\ ~arrayIncludes(dconfig.rootFiles, e)
    /\ dout = ReturnsNull

-----------------------------------------------------------------------------
(* Vocabulary: what a check gave, apart from the file path it was given    *)
verdictOf(out) ==
  IF out.kind = "error"
    THEN [kind |-> "error", line |-> out.error.line, column |-> out.error.column,
          message |-> out.error.message, ruleName |-> out.error.ruleName]
  ELSE [kind |-> out.kind]

\* the file and the import shortened to their first segment
shortFile(d, n, w) == fileIn(dconfig.domainPath, d, 0, n, w)
shortImport(e) == importStatement(importOf(dconfig.importAlias, e, 0, <<>>))

(* C12: the domain of a file is the first segment after domainPath and the *)
(* domain of an import the first segment after the alias; deeper segments  *)
(* change nothing: the verdict on (file, import) is the verdict on the     *)
(* file and the import shortened to their first segment.                   *)
C12_DeeperSegmentsIgnored ==
  dout # Pending =>
    \A d \in SegmentNames, n \in FileNames, w \in BOOLEAN :
      (\E k \in 0..MaxNesting : dfile = fileIn(dconfig.domainPath, d, k, n, w))
      => \A e \in SegmentNames :
           importIsOf(e)
           => /\ getDomainFromPath(dconfig, dfile) = d
              /\ getDomainFromImport(dconfig,
                                     stripQuotes(childForFieldName(dnode, "source").text))
                   = (IF arrayIncludes(dconfig.rootFiles, e) THEN Null ELSE e)
              /\ verdictOf(dout)
                   = verdictOf(domainCheck(dconfig, shortImport(e), shortFile(d, n, w)))

\* A file below a subdirectory of its domain importing from a subdirectory of
\* another domain was reported, and so was a file that was not.
C12_Witness ==
  \E d, e \in SegmentNames :
    /\ dout.kind = "error"
    /\ d # e
    /\ dfile = fileIn(dconfig.domainPath, d, MaxNesting, <<"/","a",".","t","s">>, FALSE)
    /\ dnode = importStatement(importOf(dconfig.importAlias, e, MaxNesting,
                                        <<"/","t","y","p","e","s">>))

-----------------------------------------------------------------------------
(* C13: an import whose first segment after the alias is listed in         *)
(* rootFiles is never reported, from any domain: one with an empty list,   *)
(* one absent from the mapping.                                            *)
C13_RootFileImportNeverFlagged ==
  \A d, e \in SegmentNames :
    ( /\ arrayIncludes(dconfig.rootFiles, e)
      /\ checkedImport(d, e, FileNames) )
    => dout = ReturnsNull

\* The check returned null for an import of a root file from a file that is
\* no test file, in another domain whose allowed list is empty.
C13_Witness ==
  \E d, e \in SegmentNames :
    /\ checkedImport(d, e, FileNames \ TestFileNames)
    /\ d # e
    /\ arrayIncludes(dconfig.rootFiles, e)
    /\ hasOwn(dconfig.dependencies, d)
    /\ ownValue(dconfig.dependencies, d) = <<>>
    /\ dout = ReturnsNull

-----------------------------------------------------------------------------
(* Vocabulary: the cases in which the rule has nothing to check            *)
nothingToCheck ==
  \/ dnode.type # "import_statement"
  \/ endsWith(dfile, TestSuffixTs) \/ endsWith(dfile, TestSuffixTsx)
  \/ getDomainFromPath(dconfig, dfile) = Null
  \/ LET src == stripQuotes(childForFieldName(dnode, "source").text)
     IN \/ getDomainFromImport(dconfig, src) = Null
        \/ getDomainFromImport(dconfig, src) = getDomainFromPath(dconfig, dfile)

(* C14, as stated: with an empty dependencies mapping the rule checks      *)
(* nothing and returns no violation for any import in any file.            *)
C14_EmptyMappingDisablesChecking ==
  (dout # Pending /\ dconfig.dependencies = <<>>) => dout = ReturnsNull

(* C14, amended: with an empty dependencies mapping the rule keeps         *)
(* checking and allows no cross-domain import: it returns no violation     *)
(* exactly when there is nothing to check (no import statement, a test     *)
(* file, a file outside the domains, an import that is no domain import,   *)
(* a self-import), and every violation it returns lists 'none'.            *)
C14_EmptyMappingAllowsNothing ==
  (dout # Pending /\ dconfig.dependencies = <<>>)
  => /\ (dout = ReturnsNull) <=> nothingToCheck
     /\ dout.kind = "error"
          => includes(dout.error.message, <<"[","n","o","n","e","]">>)

\* With an empty mapping a cross-domain import was reported.
C14_Witness ==
  /\ dout.kind = "error"
  /\ dconfig.dependencies = <<>>
  /\ \E d, e \in SegmentNames : d # e /\ checkedImport(d, e, FileNames)

-----------------------------------------------------------------------------
(* Vocabulary of the properties of the no-primitive-obsession rule         *)

\* p occurs in s; s ends with p
containsText(s, p) ==
  \E i \in 1..(Len(s) - Len(p) + 1) : SubSeq(s, i, i + Len(p) - 1) = p
endsWithText(s, p) == Len(p) <= Len(s) /\ SubSeq(s, Len(s) - Len(p) + 1, Len(s)) = p

isTestFile(f) == endsWithText(f, <<".","t","e","s","t",".","t","s">>) \/ endsWithText(f, <<".","t","e","s","t",".","t","s","x">>)

\* the path with forward slashes contains one of the enforced paths
inEnforcedPath(config, f) ==
  \E k \in 1..Len(config.enforcedPaths) :
    containsText(normalizeSeparators(f), config.enforcedPaths[k])

\* some exempt pattern matches the path with forward slashes: by its ending
\* for a pattern that starts with **/, by containment for any other
matchesExemptPattern(config, f) ==
  \E k \in 1..Len(config.exemptPaths) :
    LET pattern == config.exemptPaths[k]
    IN IF Len(pattern) >= 3 /\ SubSeq(pattern, 1, 3) = <<"*","*","/">>
         THEN endsWithText(normalizeSeparators(f), SubSeq(pattern, 4, Len(pattern)))
       ELSE containsText(normalizeSeparators(f), pattern)

isFunctionNode(node) ==
  node.type \in {"function_declaration", "arrow_function", "method_definition"}

\* the parameter list of a function node: its formal_parameters, or <<>>
parameterList(node) ==
  LET parameters == childForFieldName(node, "parameters")
  IN IF parameters = NullNode THEN <<>>
     ELSE SelectSeq(parameters.children,
                    LAMBDA c : c.type \in {"required_parameter", "optional_parameter"})

\* a parameter the configuration makes a violation: its name is not exempt and
\* it is annotated with a predefined type listed in primitives
isViolating(config, param) ==
  /\ ~arrayIncludes(config.exemptParams, childForFieldName(param, "pattern").text)
  /\ childForFieldName(param, "type") # NullNode
  /\ \E k \in 1..Len(childForFieldName(param, "type").children) :
       LET t == childForFieldName(param, "type").children[k]
       IN t.type = "predefined_type" /\ arrayIncludes(config.primitives, t.text)

violatingParameters(config, node) ==
  SelectSeq(parameterList(node), LAMBDA c : isViolating(config, c))

\* the rule is in force for the file: enforced, not exempt, no test file
inForce(config, f) ==
  inEnforcedPath(config, f) /\ ~matchesExemptPattern(config, f) /\ ~isTestFile(f)

-----------------------------------------------------------------------------
(* C15: in a file whose path (with forward slashes) contains none of the   *)
(* enforcedPaths, the rule returns no violation for any node, whatever the *)
(* parameter types; with an empty enforcedPaths it never returns one.      *)
C15_OutsideEnforcedPathsNoViolation ==
  (pout # Pending /\ ~inEnforcedPath(pconfig, pfile)) => pout = ReturnsNull

\* The check returned null for a function with a violating parameter in a
\* file that is no test file and matches no exempt pattern, under a
\* configuration that enforces other paths.
C15_Witness ==
  /\ pout = ReturnsNull
  /\ pfile # <<>>
  /\ pconfig.enforcedPaths # <<>>
  /\ ~inEnforcedPath(pconfig, pfile)
  /\ ~matchesExemptPattern(pconfig, pfile)
  /\ ~isTestFile(pfile)
  /\ isFunctionNode(pnode)
  /\ violatingParameters(pconfig, pnode) # <<>>

-----------------------------------------------------------------------------
(* C16: for one function, arrow function or method the rule reports at     *)
(* most one violation; when several parameters are violating it is the     *)
(* one for the first of them in source order, positioned at that parameter *)
(* and naming it.                                                          *)
C16_FirstViolatingParameterOnly ==
  (pout # Pending /\ isFunctionNode(pnode) /\ inForce(pconfig, pfile))
  => LET violating == violatingParameters(pconfig, pnode)
     IN IF violating = <<>> THEN pout = ReturnsNull
        ELSE /\ pout.kind = "error"
             /\ pout.error.line = violating[1].row + 1
             /\ pout.error.column = violating[1].column + 1
             /\ includes(pout.error.message,
                         <<"p","a","r","a","m","e","t","e","r"," ","'">>
                           \o childForFieldName(violating[1], "pattern").text \o <<"'">>)

\* The check reported the first of two violating parameters with different
\* names, which stands after a parameter that is not violating.
C16_Witness ==
  /\ pout.kind = "error"
  /\ LET violating == violatingParameters(pconfig, pnode)
     IN /\ Len(violating) >= 2
        /\ childForFieldName(violating[1], "pattern").text
             # childForFieldName(violating[2], "pattern").text
        /\ pout.error.column = violating[1].column + 1
        /\ pout.error.column # violating[2].column + 1

-----------------------------------------------------------------------------
(* C17: a file in an enforced path is exempt exactly when some exemptPaths *)
(* pattern matches its path (a pattern that starts with **/ by the path's  *)
(* ending, any other by containment): an exempt file yields no violation,  *)
(* and the same function in a file that is not exempt is reported.         *)
C17_ExemptExactlyWhenPatternMatches ==
  ( /\ pout # Pending
    /\ isFunctionNode(pnode)
    /\ inEnforcedPath(pconfig, pfile)
    /\ ~isTestFile(pfile)
    /\ violatingParameters(pconfig, pnode) # <<>> )
  => (pout = ReturnsNull <=> matchesExemptPattern(pconfig, pfile))

\* A function with a violating parameter was not reported in a file that a
\* **/ pattern matches by its ending, written with backslashes.
C17_Witness ==
  /\ pout = ReturnsNull
  /\ isFunctionNode(pnode)
  /\ violatingParameters(pconfig, pnode) # <<>>
  /\ pfile = toBackslashes(FileMapper)
  /\ inEnforcedPath(pconfig, pfile)
  /\ pconfig.exemptPaths = << <<"*","*","/","m","a","p","p","e","r",".","t","s">> >>

-----------------------------------------------------------------------------
(* C18: an arrow function whose parameter is a single bare identifier is   *)
(* never reported, under any configuration: also when the file is enforced *)
(* and exemptParams is empty.                                              *)
C18_BareArrowParameterNeverFlagged ==
  ( /\ pout # Pending
    /\ pnode.type = "arrow_function"
    /\ childForFieldName(pnode, "parameters") = NullNode
    /\ childForFieldName(pnode, "parameter").type = "identifier" )
  => pout = ReturnsNull

\* The check returned null for x => (id: string) => {} in a file where the
\* rule is in force, with no exempt parameter names and string a primitive.
C18_Witness ==
  /\ pout = ReturnsNull
  /\ pnode = bareArrowFunction(arrowFunction(<<IdString>>, 5))
  /\ inForce(pconfig, pfile)
  /\ pconfig.exemptParams = <<>>

-----------------------------------------------------------------------------
(* C19: both configured rules skip test files: for a file path that ends   *)
(* in .test.ts or .test.tsx the domain-dependencies rule and the           *)
(* no-primitive-obsession rule return no violation at any node, whatever   *)
(* the imports, the parameter types and the configuration.                 *)
C19_TestFilesSkipped ==
  /\ (dout # Pending /\ isTestFile(dfile)) => dout = ReturnsNull
  /\ (pout # Pending /\ isTestFile(pfile)) => pout = ReturnsNull

\* A function with a violating parameter was not reported in a .test.ts file
\* of an enforced path that no exempt pattern matches.
C19_Witness ==
  /\ pout = ReturnsNull
  /\ endsWithText(pfile, <<".","t","e","s","t",".","t","s">>)
  /\ isFunctionNode(pnode)
  /\ violatingParameters(pconfig, pnode) # <<>>
  /\ inEnforcedPath(pconfig, pfile)
  /\ ~matchesExemptPattern(pconfig, pfile)

-----------------------------------------------------------------------------
(* Vocabulary of the properties of the driver                              *)

\* The violations the registered rules find in a file, counted node by node.
violationsIn(file) == Cardinality(reportsOf(rules, parse(readFileSync(file)), file))

\* The lint calls of the loop that returned.
returnedLints == { i \in 1..Len(linted) : linted[i].kind = "returned" }

\* The sum of the per-file violation counts over the files linted.
RECURSIVE sumOver(_)
sumOver(indices) ==
  IF indices = {} THEN 0
  ELSE LET i == CHOOSE j \in indices : TRUE
       IN violationsIn(linted[i].file) + sumOver(indices \ {i})

totalViolations == sumOver(returnedLints)

\* The files in which the rules find a violation, among those linted.
filesWithViolations == { i \in returnedLints : violationsIn(linted[i].file) > 0 }

\* The run failed with an error: main rejected and the catch handler ran.
runFailed == mainPc = "caught"

(* C20: the driver lints the files findTsFiles returned one after another,  *)
(* in their order, on the one linter holding every registered rule; when   *)
(* the process has ended, its status is non-zero exactly when the sum of   *)
(* the per-file violation counts is greater than zero or the run failed    *)
(* with an error (a rejected init or a throwing lint always fails the      *)
(* run); a run that did not fail linted every file, printed one text per   *)
(* file with violations and then the total; and a run without violations   *)
(* and without failure printed nothing and ended with status 0.            *)
C20_ExitStatusIffViolationsOrFailure ==
  /\ Len(linted) <= Len(files)
  /\ \A i \in 1..Len(linted) : linted[i].file = files[i]
  /\ Len(linted) > 0 => result.rules = rules /\ result.file = files[Len(linted)]
  /\ exited =>
       /\ (exitCode # 0) <=> (totalViolations > 0 \/ runFailed)
       /\ (pc[1] = "rejected" \/ returnedLints # 1..Len(linted)) => runFailed
       /\ ~runFailed =>
            /\ returnedLints = 1..Len(files)
            /\ totalViolations > 0 =>
                 /\ Len(stderr) = Cardinality(filesWithViolations) + 1
                 /\ stderr[Len(stderr)] = foundMessage(totalViolations)
            /\ totalViolations = 0 => stderr = <<>> /\ exitCode = 0

\* A run over two files, each with violations, has ended through the total.
C20_Witness ==
  /\ exited
  /\ ~runFailed
  /\ exitCode = 1
  /\ Len(files) >= 2
  /\ {1, 2} \subseteq filesWithViolations
  /\ totalViolations >= 3

-----------------------------------------------------------------------------
(* C21: in a file that is no test file, of a domain that has an allowed    *)
(* list without '*', an import of another domain that is no root file is   *)
(* passed exactly when that domain is a member of the importing domain's   *)
(* own list, and is reported otherwise: a list reached through an allowed  *)
(* domain, or the imported domain's list, allows nothing.                  *)
C21_AllowedIffLiteralMember ==
  \A d, e \in SegmentNames :
    ( /\ d # e
      /\ hasOwn(dconfig.dependencies, d)
      /\ ~arrayIncludes(ownValue(dconfig.dependencies, d), Star)
      /\ ~arrayIncludes(dconfig.rootFiles, e)
      /\ checkedImport(d, e, FileNames \ TestFileNames) )
    => IF arrayIncludes(ownValue(dconfig.dependencies, d), e)
         THEN dout = ReturnsNull
       ELSE dout.kind = "error"

\* With task: [step], hook: [task], step: [], a hook file importing step was
\* reported.
C21_Witness ==
  /\ checkedImport(Hook, Step, FileNames \ TestFileNames)
  /\ hasOwn(dconfig.dependencies, Hook)
  /\ ownValue(dconfig.dependencies, Hook) = <<Task>>
  /\ hasOwn(dconfig.dependencies, Task)
  /\ ownValue(dconfig.dependencies, Task) = <<Step>>
  /\ hasOwn(dconfig.dependencies, Step)
  /\ dout.kind = "error"

-----------------------------------------------------------------------------
(* Vocabulary: a prefix followed by a segment, read off the text           *)

\* the path with every backslash written as a slash
slashed(s) == [i \in 1..Len(s) |-> IF s[i] = "\\" THEN "/" ELSE s[i]]

\* s holds prefix, a slash and the first character of a segment
followedBySegment(s, prefix) ==
  \E i \in 1..Len(s) :
    /\ i + Len(prefix) + 1 <= Len(s)
    /\ SubSeq(s, i, i + Len(prefix) - 1) = prefix
    /\ s[i + Len(prefix)] = "/"
    /\ s[i + Len(prefix) + 1] # "/"

\* the file under check lies below domainPath/<segment>
pathInDomain == followedBySegment(slashed(dfile), dconfig.domainPath)

\* the import under check begins with the alias's leading segment and holds
\* the alias followed by a segment
importUsesAlias ==
  LET source == stripQuotes(childForFieldName(dnode, "source").text)
  IN /\ startsWith(source, firstSegment(dconfig.importAlias))
     /\ followedBySegment(source, dconfig.importAlias)

(* C22: for an import statement in a file whose path does not hold         *)
(* domainPath followed by a segment, or whose source does not use the      *)
(* alias (it does not begin with the alias's leading segment, or does not  *)
(* hold the alias followed by a segment), the check returns null, and it   *)
(* returns null under every dependencies mapping, one whose lookup would   *)
(* throw included: the mapping is not read.                                *)
C22_NoCheckOutsideDomainsOrAlias ==
  ( /\ dout # Pending
    /\ dnode.type = "import_statement"
    /\ ~pathInDomain \/ ~importUsesAlias )
  => /\ dout = ReturnsNull
     /\ \A deps \in DependencyMaps :
          domainCheck([dconfig EXCEPT !.dependencies = deps], dnode, dfile) = ReturnsNull

\* A relative import was passed in a file, no test file, of a domain named
\* like a member of Object.prototype and absent from the mapping.
C22_Witness ==
  /\ dout = ReturnsNull
  /\ dnode = importStatement(<<".","/","t","y","p","e","s">>)
  /\ fileIsIn(Constructor, FileNames \ TestFileNames)
  /\ ~hasOwn(dconfig.dependencies, Constructor)

-----------------------------------------------------------------------------
(* Vocabulary: the text of a domain-dependencies violation                 *)

\* the first n names of a list, in its order, separated by ', '
RECURSIVE listed(_, _)
listed(list, n) ==
  IF n = 0 THEN <<>>
  ELSE IF n = 1 THEN list[1]
  ELSE listed(list, n - 1) \o <<",", " ">> \o list[n]

\* the allowed list of a domain as the configuration gives it, or 'none'
allowedText(d) ==
  IF hasOwn(dconfig.dependencies, d) /\ Len(ownValue(dconfig.dependencies, d)) > 0
    THEN listed(ownValue(dconfig.dependencies, d), Len(ownValue(dconfig.dependencies, d)))
  ELSE <<"n","o","n","e">>

violationText(d, e) ==
  <<"D","o","m","a","i","n"," ","'">> \o d \o <<"'"," ","c","a","n","n","o","t"," ","i","m","p","o","r","t"," ","f","r","o","m"," ","d","o","m","a","i","n"," ","'">> \o e
    \o <<"'","."," ","A","l","l","o","w","e","d"," ","d","o","m","a","i","n"," ","i","m","p","o","r","t","s",":"," ","[">> \o allowedText(d) \o <<"]">>

\* the node under check, had the statement started elsewhere
movedNode == [dnode EXCEPT !.row = 3, !.column = 2]

(* C23: a violation of the domain-dependencies rule carries the file path, *)
(* the import statement's start (row + 1, column + 1, wherever the         *)
(* statement starts), the rule's name, and the message "Domain '<from>'    *)
(* cannot import from domain '<to>'. Allowed domain imports: [<list>]",    *)
(* the list being the importing domain's allowed names in configured       *)
(* order separated by ', ', or 'none' when it is empty or the domain has   *)
(* no entry.                                                               *)
C23_ViolationPositionAndMessage ==
  dout.kind = "error" =>
    /\ dout.error.file = dfile
    /\ dout.error.line = dnode.row + 1
    /\ dout.error.column = dnode.column + 1
    /\ dout.error.ruleName = "domain-dependencies"
    /\ domainCheck(dconfig, movedNode, dfile).error
         = [dout.error EXCEPT !.line = 4, !.column = 3]
    /\ \A d, e \in SegmentNames :
         checkedImport(d, e, FileNames) => dout.error.message = violationText(d, e)

\* A violation listed two allowed names, neither of them the imported domain.
C23_Witness ==
  \E d, e \in SegmentNames :
    /\ dout.kind = "error"
    /\ checkedImport(d, e, FileNames)
    /\ hasOwn(dconfig.dependencies, d)
    /\ Len(ownValue(dconfig.dependencies, d)) = 2
    /\ dout.error.message = violationText(d, e)

-----------------------------------------------------------------------------
(* C24: either configuration-driven rule gives, for a node of a file, the  *)
(* same verdict (null, or a violation with the same position, message and  *)
(* rule name) whether the file's path is written with slashes or with      *)
(* backslashes; only the path carried by the violation follows the         *)
(* spelling.                                                               *)
C24_PathSeparatorInvariance ==
  /\ dout # Pending =>
       /\ verdictOf(dout) = verdictOf(domainCheck(dconfig, dnode, slashed(dfile)))
       /\ verdictOf(dout) = verdictOf(domainCheck(dconfig, dnode, toBackslashes(dfile)))
       /\ dout.kind = "error" => dout.error.file = dfile
  /\ pout # Pending =>
       /\ verdictOf(pout) = verdictOf(primitiveCheck(pconfig, pnode, slashed(pfile)))
       /\ verdictOf(pout) = verdictOf(primitiveCheck(pconfig, pnode, toBackslashes(pfile)))
       /\ pout.kind = "error" => pout.error.file = pfile

\* A parameter was reported in a file whose path is written with backslashes.
C24_Witness ==
  /\ pout.kind = "error"
  /\ \E i \in 1..Len(pfile) : pfile[i] = "\\"
  /\ slashed(pfile) # pfile

-----------------------------------------------------------------------------
(* C25: a parameter whose name is in exemptParams is never the one the     *)
(* no-primitive-obsession rule reports, whatever its type; an exempt       *)
(* parameter does not end the scan, so the first parameter after it that   *)
(* is not exempt and has a listed primitive type is reported               *)
(* (f(count: number, id: string) reports id); a function whose             *)
(* primitive-typed parameters are all exempt yields no violation.          *)
hasExemptName(config, param) ==
  arrayIncludes(config.exemptParams, childForFieldName(param, "pattern").text)

\* annotated with a predefined type that is listed in primitives
isPrimitiveTyped(config, param) ==
  LET annotation == childForFieldName(param, "type")
  IN /\ annotation # NullNode
     /\ namedChild(annotation, 0).type = "predefined_type"
     /\ arrayIncludes(config.primitives, namedChild(annotation, 0).text)

reportedAt(out, param) ==
  /\ out.kind = "error"
  /\ out.error.line = param.row + 1
  /\ out.error.column = param.column + 1

C25_ExemptParamsSkippedScanContinues ==
  (pout # Pending /\ isFunctionNode(pnode))
  => LET ps == parameterList(pnode)
     IN /\ \A k \in 1..Len(ps) :
             hasExemptName(pconfig, ps[k]) => ~reportedAt(pout, ps[k])
        /\ inForce(pconfig, pfile) =>
             \A k \in 1..Len(ps) :
               ( /\ k > 1
                 /\ ~hasExemptName(pconfig, ps[k])
                 /\ isPrimitiveTyped(pconfig, ps[k])
                 /\ \A j \in 1..(k - 1) : hasExemptName(pconfig, ps[j]) )
               => /\ reportedAt(pout, ps[k])
                  /\ includes(pout.error.message,
                              <<"p","a","r","a","m","e","t","e","r"," ","'">>
                                \o childForFieldName(ps[k], "pattern").text \o <<"'">>)
        /\ (\A k \in 1..Len(ps) :
              isPrimitiveTyped(pconfig, ps[k]) => hasExemptName(pconfig, ps[k]))
           => pout = ReturnsNull

\* f(count: number, id: string) with count exempt: the check reported id,
\* the parameter after the exempt one.
C25_Witness ==
  /\ pnode = functionDeclaration(<<CountNumber, IdString>>)
  /\ hasExemptName(pconfig, parameterList(pnode)[1])
  /\ isPrimitiveTyped(pconfig, parameterList(pnode)[1])
  /\ reportedAt(pout, parameterList(pnode)[2])

-----------------------------------------------------------------------------
(* C26: in an enforced, non-exempt, non-test file the rule reports a       *)
(* parameter only if it is a plain required or optional parameter (its     *)
(* pattern is a name, no rest pattern and no destructuring pattern), has   *)
(* a type annotation, and the annotation's top-level type is a predefined  *)
(* type listed in primitives; untyped parameters, parameters of a named    *)
(* type, rest parameters, destructuring patterns and predefined types      *)
(* that are not listed are never reported.                                 *)
isPlainParameter(param) ==
  /\ param.type \in {"required_parameter", "optional_parameter"}
  /\ childForFieldName(param, "pattern").type = "identifier"

C26_OnlyPlainPrimitiveParametersReported ==
  (pout # Pending /\ isFunctionNode(pnode) /\ inForce(pconfig, pfile))
  => LET ps == parameterList(pnode)
     IN /\ pout.kind = "error" => \E k \in 1..Len(ps) : reportedAt(pout, ps[k])
        /\ \A k \in 1..Len(ps) :
             reportedAt(pout, ps[k])
             => /\ isPlainParameter(ps[k])
                /\ isPrimitiveTyped(pconfig, ps[k])

-----------------------------------------------------------------------------
(* C27: the forbidden-call rules (no-vi-stub, no-vi-mock, no-vi-mocked,    *)
(* no-spy-on) flag a node iff it is a call expression whose callee text is *)
(* exactly one of the rule's forbidden names: in every file the driver     *)
(* lints, each rule has as many violations as the file has calls of its    *)
(* forbidden names, and at the position of each such call, at any nesting  *)
(* depth, one violation per call that starts there; so calls with a        *)
(* similar name and calls through computed or dynamic access are not       *)
(* flagged.                                                                *)
ForbiddenCallRules == {"no-vi-stub", "no-vi-mock", "no-vi-mocked", "no-spy-on"}

forbiddenNames(ruleName) ==
  CASE ruleName = "no-vi-stub" -> { <<"v","i",".","s","t","u","b","G","l","o","b","a","l">>,
                                    <<"v","i",".","s","t","u","b","E","n","v">> }
    [] ruleName = "no-vi-mock" -> { <<"v","i",".","m","o","c","k">>,
                                    <<"v","i",".","d","o","M","o","c","k">> }
    [] ruleName = "no-vi-mocked" -> { <<"v","i",".","m","o","c","k","e","d">> }
    [] ruleName = "no-spy-on" -> { <<"v","i",".","s","p","y","O","n">> }

isForbiddenCall(node, ruleName) ==
  /\ node.type = "call_expression"
  /\ childForFieldName(node, "function") # NullNode
  /\ childForFieldName(node, "function").text \in forbiddenNames(ruleName)

\* the violations of the rule in the last lint call, and those at a position
violationsOfRule(ruleName) ==
  { i \in 1..Len(result.errors) : result.errors[i].ruleName = ruleName }
violationsOfRuleAt(ruleName, row, column) ==
  { i \in violationsOfRule(ruleName) :
      /\ result.errors[i].file = result.file
      /\ result.errors[i].line = row + 1
      /\ result.errors[i].column = column + 1 }

\* the forbidden calls of the rule in a tree, and those that start at a position
forbiddenCallsIn(tree, ruleName) ==
  { p \in pathsOf(tree, <<>>) : isForbiddenCall(nodeAt(tree, p), ruleName) }
forbiddenCallsAt(tree, ruleName, row, column) ==
  { p \in forbiddenCallsIn(tree, ruleName) :
      nodeAt(tree, p).row = row /\ nodeAt(tree, p).column = column }

C27_ForbiddenCallsFlaggedIffExactCallee ==
  (mainPc # "off" /\ result.kind = "returned")
  => \A ruleName \in ForbiddenCallRules :
       /\ Cardinality(violationsOfRule(ruleName))
            = Cardinality(forbiddenCallsIn(lastTree, ruleName))
       /\ \A p \in forbiddenCallsIn(lastTree, ruleName) :
            LET node == nodeAt(lastTree, p)
            IN Cardinality(violationsOfRuleAt(ruleName, node.row, node.column))
                 = Cardinality(forbiddenCallsAt(lastTree, ruleName, node.row, node.column))

\* The driver linted the file of calls: vi.stubGlobal at the top, vi.spyOn
\* inside a callback and vi.mock inside an argument of vi.mocked are flagged,
\* and nothing is flagged on the lines of stubGlobal, vi.spyOnProperty,
\* vi[m], o['stubEnv'], (g()) and the bare vi.spyOn.
C27_Witness ==
  /\ mainPc # "off"
  /\ result.kind = "returned"
  /\ result.source = SourceCalls
  /\ violationsOfRuleAt("no-vi-stub", 0, 0) # {}
  /\ violationsOfRuleAt("no-spy-on", 7, 10) # {}
  /\ violationsOfRuleAt("no-vi-mocked", 7, 23) # {}
  /\ violationsOfRuleAt("no-vi-mock", 7, 33) # {}
  /\ \A ruleName \in ForbiddenCallRules : \A i \in violationsOfRule(ruleName) :
       result.errors[i].line \notin 2..7

-----------------------------------------------------------------------------
(* C28: every violation lint returns carries the file path passed to that  *)
(* lint call and the 1-based position of the node the rule flags: line is  *)
(* the node's start row + 1 and column its start column + 1. The flagged   *)
(* node is the node the check was invoked on, or, for the two rules that   *)
(* point at a part of it (the parameter, the declared name), a node inside *)
(* it. A violation at the first character has line 1 and column 1, and no  *)
(* violation has line or column 0.                                         *)
flagsInside(ruleName) ==
  ruleName \in {"no-primitive-obsession", "no-misleading-test-double-names"}

C28_ViolationsCarryFileAndOneBasedPosition ==
  (mainPc # "off" /\ result.kind = "returned")
  => /\ Len(result.errors) = Cardinality(lastReports)
     /\ \A a \in lastReports :
          LET e       == result.errors[rankOf(a, lastReports)]
              checked == nodeAt(lastTree, a[1])
          IN /\ e.file = result.file
             /\ e.ruleName = result.rules[a[2]].name
             /\ e.line >= 1
             /\ e.column >= 1
             /\ IF flagsInside(e.ruleName)
                  THEN \E q \in pathsOf(checked, <<>>) :
                         /\ e.line = nodeAt(checked, q).row + 1
                         /\ e.column = nodeAt(checked, q).column + 1
                ELSE /\ e.line = checked.row + 1
                     /\ e.column = checked.column + 1

\* One lint call returned a violation at the first character of the source
\* and one further down and to the right.
C28_Witness ==
  /\ mainPc # "off"
  /\ result.kind = "returned"
  /\ result.file # <<>>
  /\ \E i, j \in 1..Len(result.errors) :
       /\ result.errors[i].line = 1 /\ result.errors[i].column = 1
       /\ result.errors[j].line > 1 /\ result.errors[j].column > 1
       /\ result.errors[i].file = result.file
       /\ result.errors[j].file = result.file

-----------------------------------------------------------------------------
(* C29: the segments listed in rootFiles are no domains on the importing   *)
(* side either: an import statement in a file under                        *)
(* domainPath/<rootFiles entry>, or in a file directly in the domain       *)
(* directory, that imports a domain through the alias yields no violation. *)
C29_RootFilesExemptOnImportingSide ==
  /\ \A d, e \in SegmentNames :
       ( /\ arrayIncludes(dconfig.rootFiles, d)
         /\ checkedImport(d, e, FileNames) )
       => dout = ReturnsNull
  /\ ( /\ dout # Pending
       /\ dfile = fileAtRoot(dconfig.domainPath)
       /\ \E e \in SegmentNames : importIsOf(e) )
     => dout = ReturnsNull

-----------------------------------------------------------------------------
(* C30: the traversal of lint terminates, and when lint returns, the check *)
(* of every registered rule has been invoked exactly once on every node of *)
(* the tree (root, inner nodes and leaves, named and anonymous): the       *)
(* invocations are the pairs of a node and a registration, their number is *)
(* nodes x rules, and the returned violations are at most as many.         *)
invocations == { result.calls[i] : i \in 1..Len(result.calls) }

C30_EveryRuleOnceOnEveryNode ==
  result.kind = "returned"
  => LET nodes == pathsOf(lastTree, <<>>)
     IN /\ invocations = nodes \X (1..Len(result.rules))
        /\ Len(result.calls) = Cardinality(nodes) * Len(result.rules)
        /\ Len(result.errors) <= Len(result.calls)

\* lint returned violations after invoking two or more rules on the root, on
\* an inner node, on a named leaf and on an anonymous leaf.
C30_Witness ==
  /\ result.kind = "returned"
  /\ Len(result.rules) >= 2
  /\ Len(result.errors) > 0
  /\ \A k \in 1..Len(result.rules) :
       /\ <<<<>>, k>> \in invocations
       /\ \E p \in pathsOf(lastTree, <<>>) :
            /\ <<p, k>> \in invocations
            /\ p # <<>>
            /\ nodeAt(lastTree, p).children # <<>>
       /\ \E p \in pathsOf(lastTree, <<>>) :
            /\ <<p, k>> \in invocations
            /\ nodeAt(lastTree, p).children = <<>>
            /\ nodeAt(lastTree, p).named
       /\ \E p \in pathsOf(lastTree, <<>>) :
            /\ <<p, k>> \in invocations
            /\ nodeAt(lastTree, p).children = <<>>
            /\ ~nodeAt(lastTree, p).named

====
